---- MODULE Spec2Model ----
(***************************************************************************)
(* Sidekick audio pipeline.                                                *)
(*                                                                         *)
(* Two programs are modelled:                                              *)
(*   - the capture helper (AudioTap, src/unnamed/part_010): two ring       *)
(*     buffers fed by the system and microphone callbacks, the mixer       *)
(*     flushIfReady, the voice-activity gate and the writes to stdout;     *)
(*   - the host bridge (src/src/main/utils/audio-capture.ts): the byte     *)
(*     buffer rawAudioBuffer filled by the helper's stdout 'data' events   *)
(*     and drained by getAudioBufferBase64 / clearAudioBuffer.             *)
(*                                                                         *)
(* Both callbacks of the helper are delivered on one serial dispatch       *)
(* queue (audioQueue), so each callback is one atomic action.  The host    *)
(* runs on the single-threaded Node event loop and its handlers contain no *)
(* await, so each handler is one atomic action as well.                    *)
(***************************************************************************)
EXTENDS Integers, Sequences, FiniteSets, TLC

\* ------------------------------------------------------------------------
\* Bounds of the model
\* ------------------------------------------------------------------------

\* Samples per mixed frame.  The helper uses 1,600 (part_010:69); the model
\* keeps the code's structure and scales the frame down.
framesPerChunk == 2

\* Number of source callbacks explored in SpecTap.
MaxCallbacks == 3

\* Number of source callbacks explored in SpecGate.
MaxGateCallbacks == 5

\* Number of stdout 'data' deliveries explored in SpecBuffer.
MaxDataEvents == 3

\* Number of helpers the bridge spawns in SpecBuffer.
MaxSpawns == 2

\* Calls of stopAudioCapture that find a process.
MaxStops == 2

\* Seconds of silence given to the helper in scenario A.
SilentSeconds == 5

\* Blocks given to the IOProc build.
MaxIOCalls == 4

\* Number of source callbacks explored in SpecMix.
MaxMixCallbacks == 2

\* ------------------------------------------------------------------------
\* Constants of the helper
\* ------------------------------------------------------------------------

\* part_010:63 - "10x capacity" of one frame (16,000 against 1,600).
bufferCapacity == 10 * framesPerChunk

\* part_010:70 - each Int16 sample is 2 bytes.
bytesPerChunk == framesPerChunk * 2

vadOpenThresholdRMS == 150

vadCloseThresholdRMS == 100

Int16Min == -32768

Int16Max == 32767

\* ------------------------------------------------------------------------
\* Inputs: converted blocks handed to appendToRingBuffer
\* ------------------------------------------------------------------------

\* A converted block of n samples, all of amplitude v.
Block(n, v) == [i \in 1..n |-> v]

\* A converted block of n samples v, v+1, ...: every sample of a block differs.
Ramp(n, v) == [i \in 1..n |-> v + i - 1]

\* Sizes of converted blocks: a partial frame, one frame, more than the ring.
MicSizes == {1, framesPerChunk, bufferCapacity + 1}

SysSizes == {1, framesPerChunk, bufferCapacity + 1}

\* The largest microphone block that fits behind less than a frame of held
\* samples (14,401 in the helper).
LargestMicBlock == bufferCapacity - framesPerChunk + 1

\* Sizes of microphone blocks at that limit: a sample, the limit and one more.
FitSizes == {1, LargestMicBlock, LargestMicBlock + 1}

\* Amplitudes.  A frame of microphone samples v alone has rms 0.707 * v:
\* 71 -> 50.2, 128 -> 90.5, 170 -> 120.2, 227 -> 160.5.  A ramp of
\* bufferCapacity + 1 samples from 170 stays between the two thresholds.
MicLevels == {0, 170, 227}

SysLevels == {100}

GateLevels == {0, 71, 128, 170, 227, 708}

\* Amplitudes at and near the ends of Int16: 0.707 times the sum of two of
\* them goes beyond Int16 on either side, and is not whole for the others.
MixLevels == {Int16Min, -3, 1001, Int16Max}

\* A converted block of n samples v, w, v, w, ...
Alternating(n, v, w) == [i \in 1..n |-> IF i % 2 = 1 THEN v ELSE w]

\* ------------------------------------------------------------------------
\* Constants of the host bridge (audio-capture.ts)
\* ------------------------------------------------------------------------

SAMPLE_RATE == 16000

BYTES_PER_SAMPLE == 2

MAX_BUFFER_SIZE == 8 * 1024 * 1024

MIN_BUFFER_SIZE == SAMPLE_RATE * BYTES_PER_SAMPLE * 1

\* Bytes delivered to the stdout 'data' handler between two other events of
\* the bridge.  The handler only concatenates, so back-to-back 'data'
\* events are one delivery of their total size.
DataSizes == {101, 31999, 32001, MAX_BUFFER_SIZE}

VARIABLES
    sysBuf, micBuf,          \* ring storage, index 0 .. bufferCapacity-1
    sysHead, sysCount,       \* read pointer and number of valid samples
    micHead, micCount,
    vadIsCurrentlyActive,    \* gate state
    running,                 \* the helper process is alive
    stdioBuf,                \* bytes print() left in the C stdio buffer of stdout
    stdout,                  \* writes that reached file descriptor 1 in the last step
    printed,                 \* lines print()ed in the last step
    frames,                  \* frames mixed in the last step
    lastAppend,              \* what the last appendToRingBuffer did
    vadTrace,                \* <<rms, gate state>> of every frame mixed so far
    callbacks,               \* callbacks delivered so far
    pipe,                    \* bytes written to file descriptor 1, not yet read by the bridge
    ioProc                   \* the state of the IOProc build of the helper

tapVars == <<sysBuf, micBuf, sysHead, sysCount, micHead, micCount,
             vadIsCurrentlyActive, running, stdioBuf, stdout, printed,
             frames, lastAppend, vadTrace, callbacks, pipe, ioProc>>

VARIABLES
    audioCaptureProcess,     \* 0 for null, else the number of the spawned helper
    isActive,
    hasRegisteredExitHandlers,
    rawAudioBuffer,          \* bytes held, as runs <<from, to>> of stream offsets
    helpers,                 \* one record per helper spawned so far
    lastStatus,              \* the last 'audio-capture-status' sent to the renderer
    received,                \* bytes delivered by 'data' events so far
    dataEvents,              \* deliveries so far
    snapshots,               \* the non-empty results of getAudioBufferBase64
    dropped,                 \* bytes discarded so far, with the reason
    lastCall,                \* the last call of the API, 'data' or 'exit' event, with its result
    prevCall,                \* the one before it
    mainWindow,              \* "null", "open" or "destroyed"
    signals,                 \* every kill() so far: <<helper, signal, sender>>
    stops,                   \* one record per stopAudioCapture that found a process
    statusSent,              \* 'audio-capture-status' values sent in the last step
    appState                 \* the host application: "running", "quitting" or "ended"

bridgeVars == <<audioCaptureProcess, isActive, hasRegisteredExitHandlers,
                rawAudioBuffer, helpers, lastStatus, received, dataEvents,
                snapshots, dropped, lastCall, prevCall,
                mainWindow, signals, stops, statusSent, appState>>

VARIABLES
    isAudioCaptureEnabled,   \* the capture status the main process keeps
    toggle                   \* the toggleAudioCapture that is waiting, if any

mainVars == <<isAudioCaptureEnabled, toggle>>

\* No toggleAudioCapture is waiting.
NoToggle == [kind |-> "none", on |-> 0, now |-> "none"]

\* Everything but the bridge, and everything but the helper.
otherVars == <<tapVars, mainVars>>

hostVars == <<bridgeVars, mainVars>>

vars == <<tapVars, bridgeVars, mainVars>>

\* ------------------------------------------------------------------------
\* Arithmetic helpers
\* ------------------------------------------------------------------------

Min(a, b) == IF a < b THEN a ELSE b

Max(a, b) == IF a > b THEN a ELSE b

\* Swift's Int(Float): truncation toward zero of num / den, den > 0.
TruncDiv(num, den) == IF num >= 0 THEN num \div den ELSE -((-num) \div den)

RECURSIVE SqrtSearch(_, _, _)
\* Largest r in lo..hi with r * r <= x.
SqrtSearch(x, lo, hi) ==
    IF lo >= hi THEN lo
    ELSE LET mid == (lo + hi + 1) \div 2
         IN  IF mid * mid <= x THEN SqrtSearch(x, mid, hi)
             ELSE SqrtSearch(x, lo, mid - 1)

\* floor(sqrt(x)) for 0 <= x < 2^31.
ISqrt(x) == SqrtSearch(x, 0, 46340)

RECURSIVE Digits(_)
\* Number of characters of the decimal text of n >= 0.
Digits(n) == IF n < 10 THEN 1 ELSE 1 + Digits(n \div 10)

RECURSIVE SumSeq(_)
SumSeq(s) == IF s = <<>> THEN 0 ELSE Head(s) + SumSeq(Tail(s))

\* Natural numbers beyond 32 bits, as their digits in base 1000, least
\* significant first.  The square of a sum of two Int16 samples needs them.
BigBase == 1000

RECURSIVE BigNorm(_, _)
\* The digits of the number whose positions hold a[i], plus carry.
BigNorm(a, carry) ==
    IF a = << >>
    THEN (IF carry = 0 THEN << >>
          ELSE << carry % BigBase >> \o BigNorm(<< >>, carry \div BigBase))
    ELSE LET v == Head(a) + carry
         IN  << v % BigBase >> \o BigNorm(Tail(a), v \div BigBase)

\* The digits of n >= 0.
Big(n) == BigNorm(<< n >>, 0)

\* a * k for 0 <= k <= 2,000,000.
BigMulSmall(a, k) == BigNorm([i \in 1..Len(a) |-> a[i] * k], 0)

BigAdd(a, b) ==
    BigNorm([i \in 1..Max(Len(a), Len(b)) |->
                (IF i <= Len(a) THEN a[i] ELSE 0)
                    + (IF i <= Len(b) THEN b[i] ELSE 0)], 0)

RECURSIVE BigSum(_)
BigSum(s) == IF s = << >> THEN << >> ELSE BigAdd(Head(s), BigSum(Tail(s)))

\* a * BigBase^k
BigShift(a, k) == [i \in 1..k |-> 0] \o a

\* a \div BigBase^k
BigDrop(a, k) == SubSeq(a, k + 1, Len(a))

RECURSIVE BigDivMod(_, _)
\* Quotient (digits, leading zeros kept) and remainder of a by 0 < d <= 2,000,000.
BigDivMod(a, d) ==
    IF a = << >> THEN [q |-> << >>, r |-> 0]
    ELSE LET hi == BigDivMod(Tail(a), d)
             cur == hi.r * BigBase + Head(a)
         IN  [q |-> << cur \div d >> \o hi.q, r |-> cur % d]

RECURSIVE BigToInt(_)
\* The number of digits a, which is below 2^31.
BigToInt(a) == IF a = << >> THEN 0 ELSE Head(a) + BigBase * BigToInt(Tail(a))

RECURSIVE BigLeq(_, _)
\* a <= b, for digit sequences with or without leading zeros.
BigLeq(a, b) ==
    IF a = << >> THEN TRUE
    ELSE IF b = << >> THEN \A i \in 1..Len(a) : a[i] = 0
    ELSE LET n == Max(Len(a), Len(b))
             x == IF Len(a) = n THEN a[n] ELSE 0
             y == IF Len(b) = n THEN b[n] ELSE 0
         IN  IF x # y THEN x < y
             ELSE BigLeq(SubSeq(a, 1, Min(Len(a), n - 1)),
                         SubSeq(b, 1, Min(Len(b), n - 1)))

\* x * x for an integer x of at most 17 bits.
BigSquare(x) == LET m == IF x < 0 THEN -x ELSE x IN BigMulSmall(Big(m), m)

\* ------------------------------------------------------------------------
\* Node Buffers
\* ------------------------------------------------------------------------
\* A Buffer is the sequence of its bytes.  A byte is named by its offset in
\* the stream of bytes the bridge has received, and a Buffer is written as
\* the list of maximal runs <<from, to>> (offsets from .. to-1) it is made of.

RunLen(r) == r[2] - r[1]

RECURSIVE BufLen(_)
\* buffer.length
BufLen(b) == IF b = << >> THEN 0 ELSE RunLen(Head(b)) + BufLen(Tail(b))

\* Variant: the new chunk is put in front of the bytes already held.
BufConcatInFront(a, b) ==
    IF a = << >> THEN b
    ELSE IF b = << >> THEN a
    ELSE IF b[Len(b)][2] = a[1][1]
         THEN SubSeq(b, 1, Len(b) - 1) \o << <<b[Len(b)][1], a[1][2]>> >> \o Tail(a)
         ELSE b \o a

\* Buffer.concat([a, b])
BufConcat(a, b) ==
    IF a = << >> THEN b
    ELSE IF b = << >> THEN a
    ELSE IF a[Len(a)][2] = b[1][1]
         THEN SubSeq(a, 1, Len(a) - 1) \o << <<a[Len(a)][1], b[1][2]>> >> \o Tail(b)
         ELSE a \o b

RECURSIVE BufDrop(_, _)
\* buffer.slice(k): the bytes from position k on.
BufDrop(b, k) ==
    IF k <= 0 \/ b = << >> THEN b
    ELSE IF RunLen(Head(b)) <= k THEN BufDrop(Tail(b), k - RunLen(Head(b)))
    ELSE << <<Head(b)[1] + k, Head(b)[2]>> >> \o Tail(b)

RECURSIVE BufTake(_, _)
\* buffer.slice(0, n): the first n bytes.
BufTake(b, n) ==
    IF n <= 0 \/ b = << >> THEN << >>
    ELSE IF RunLen(Head(b)) <= n
         THEN << Head(b) >> \o BufTake(Tail(b), n - RunLen(Head(b)))
    ELSE << <<Head(b)[1], Head(b)[1] + n>> >>

\* buffer.toString('base64'): the bytes encoded, 4 characters per 3 bytes,
\* padded.
ToBase64(b) == [bytes |-> b, chars |-> 4 * ((BufLen(b) + 2) \div 3)]

\* The empty string.
EmptyString == [bytes |-> << >>, chars |-> 0]

\* ------------------------------------------------------------------------
\* Ring buffer (appendToRingBuffer)
\* ------------------------------------------------------------------------

\* The valid samples of a ring, oldest first.
RingContents(buf, head, count) ==
    [i \in 1..count |-> buf[(head + i - 1) % bufferCapacity]]

\* UTF-8 length of the overflow warning, newline included: the fixed text is
\* 81 bytes for "System" and 78 for "Mic", plus three numbers.
OverflowLineBytes(name, droppedFrames, count) ==
    (IF name = "System" THEN 81 ELSE 78)
        + Digits(droppedFrames) + Digits(count) + Digits(bufferCapacity)

\* Variant: the second memcpy starts at the beginning of the block again.
CopyIntoRingRepeatsHead(buf, tail, source, framesToCopy) ==
    IF tail + framesToCopy <= bufferCapacity
    THEN [i \in 0..(bufferCapacity - 1) |->
              IF i >= tail /\ i < tail + framesToCopy
              THEN source[i - tail + 1] ELSE buf[i]]
    ELSE LET firstPartCount == bufferCapacity - tail
             secondPartCount == framesToCopy - firstPartCount
         IN  [i \in 0..(bufferCapacity - 1) |->
                  IF i >= tail THEN source[i - tail + 1]
                  ELSE IF i < secondPartCount THEN source[i + 1]
                  ELSE buf[i]]

\* The memcpy of framesToCopy samples of source at tail, wrapping once.
CopyIntoRing(buf, tail, source, framesToCopy) ==
    IF tail + framesToCopy <= bufferCapacity
    THEN [i \in 0..(bufferCapacity - 1) |->
              IF i >= tail /\ i < tail + framesToCopy
              THEN source[i - tail + 1] ELSE buf[i]]
    ELSE LET firstPartCount == bufferCapacity - tail
             secondPartCount == framesToCopy - firstPartCount
         IN  [i \in 0..(bufferCapacity - 1) |->
                  IF i >= tail THEN source[i - tail + 1]
                  ELSE IF i < secondPartCount THEN source[firstPartCount + i + 1]
                  ELSE buf[i]]

\* Variant: the block is copied whole, without looking at the free space.
AppendNoClamp(buf, head, count, source, name) ==
    [buf |-> CopyIntoRing(buf, (head + count) % bufferCapacity, source, Len(source)),
     count |-> count + Len(source),
     printed |-> << >>]

\* Variant: on overflow the newest samples of the block are kept and its
\* oldest ones dropped.
AppendKeepNewest(buf, head, count, source, name) ==
    LET frameCount == Len(source)
        availableSpace == bufferCapacity - count
        overflow == frameCount > availableSpace
        framesToCopy == IF overflow THEN availableSpace ELSE frameCount
        kept == SubSeq(source, frameCount - framesToCopy + 1, frameCount)
    IN  [buf |-> IF framesToCopy > 0
                 THEN CopyIntoRing(buf, (head + count) % bufferCapacity,
                                   kept, framesToCopy)
                 ELSE buf,
         count |-> count + framesToCopy,
         printed |-> IF overflow
                     THEN << [msg |-> "overflow", name |-> name,
                              dropped |-> frameCount - availableSpace,
                              bytes |-> OverflowLineBytes(
                                  name, frameCount - availableSpace, count)] >>
                     ELSE << >>]

\* appendToRingBuffer on one ring: the new storage and count, and the
\* warning it printed (if any).  The read pointer is not touched.
AppendToRingBuffer(buf, head, count, source, name) ==
    LET frameCount == Len(source)
        availableSpace == bufferCapacity - count
        overflow == frameCount > availableSpace
        framesToCopy == IF overflow THEN availableSpace ELSE frameCount
        tail == (head + count) % bufferCapacity
        framesActuallyCopied == IF framesToCopy > 0 THEN framesToCopy ELSE 0
    IN  [buf |-> IF framesToCopy > 0
                 THEN CopyIntoRing(buf, tail, source, framesToCopy)
                 ELSE buf,
         count |-> count + framesActuallyCopied,
         printed |-> IF overflow
                     THEN << [msg |-> "overflow", name |-> name,
                              dropped |-> frameCount - availableSpace,
                              bytes |-> OverflowLineBytes(
                                  name, frameCount - availableSpace, count)] >>
                     ELSE << >>]

\* ------------------------------------------------------------------------
\* Mixer, loudness and gate (flushIfReady)
\* ------------------------------------------------------------------------

\* Variant: the mixed value is narrowed to 16 bits without a clamp, as
\* Int16(truncatingIfNeeded:) does.
MixSampleWraps(sys, mic) ==
    LET mixedInt == TruncDiv(707 * sys + 707 * mic, 1000)
    IN  ((mixedInt - Int16Min) % 65536) + Int16Min

\* One mixed sample: Int(sys * 0.707 + mic * 0.707) clamped to Int16.
\* Exact arithmetic in thousandths; Float rounding is not modelled.
MixSample(sys, mic) ==
    LET mixedInt == TruncDiv(707 * sys + 707 * mic, 1000)
    IN  Min(Max(mixedInt, Int16Min), Int16Max)

\* Variant: the loudness of the samples as written, after the clamp.
RmsOfClamped(raw) ==
    LET clamped == [i \in 1..Len(raw) |->
                        Min(Max(TruncDiv(707 * raw[i], 1000), Int16Min), Int16Max)]
        sumSq == BigSum([i \in 1..Len(raw) |-> BigSquare(clamped[i])])
    IN  ISqrt(BigToInt(BigDivMod(sumSq, framesPerChunk).q))

\* rms = sqrt(sumOfSquares / framesPerChunk) of the unclamped mixed values
\* 0.707 * (sys + mic), in whole units (rounded down).  raw is the sequence
\* of sys + mic; (0.707 x)^2 = 0.499849 x^2.  The sum of the squares is
\* beyond 32 bits for loud samples; the mean square is below 2^31.
\* Both thresholds are whole numbers, so rms >= t and rms < t are decided
\* exactly by the rounded-down value.
Rms(raw) ==
    LET sumRaw == BigSum([i \in 1..Len(raw) |-> BigSquare(raw[i])])
        meanSquare == BigToInt(BigDivMod(BigDrop(BigMulSmall(sumRaw, 499849), 2),
                                         framesPerChunk).q)
    IN  ISqrt(meanSquare)

\* Variant: one threshold, no hysteresis.
VadStepOneThreshold(active, rms) == rms >= vadOpenThresholdRMS

\* The gate after a frame of loudness rms.
VadStep(active, rms) ==
    IF active
    THEN (IF rms < vadCloseThresholdRMS THEN FALSE ELSE TRUE)
    ELSE (IF rms >= vadOpenThresholdRMS THEN TRUE ELSE FALSE)

\* UTF-8 length of the per-frame line: "%.2f" of rms and two counts around
\* 55 bytes ("written") or 67 bytes ("silent, discarding") of fixed text.
ChunkLineBytes(written, rms, micN, sysN) ==
    (IF written THEN 55 ELSE 67) + (Digits(rms) + 3) + Digits(micN) + Digits(sysN)

\* Variant: the system ring is read and consumed whenever it holds anything.
FrameSamplesAnySys(st, n) ==
    [i \in 1..n |->
        [mic |-> st.micBuf[(st.micHead + i - 1) % bufferCapacity],
         sys |-> IF st.sysCount > 0
                 THEN st.sysBuf[(st.sysHead + i - 1) % bufferCapacity]
                 ELSE 0]]

\* The samples one pass of the loop mixes: position i of the output frame.
FrameSamples(st, n) ==
    LET systemAudioIsEffectivelyPresent == st.sysCount >= framesPerChunk
    IN  [i \in 1..n |->
            [mic |-> st.micBuf[(st.micHead + i - 1) % bufferCapacity],
             sys |-> IF systemAudioIsEffectivelyPresent
                     THEN st.sysBuf[(st.sysHead + i - 1) % bufferCapacity]
                     ELSE 0]]

\* Variant: every mixed frame is written, whatever the gate says.
WriteChunkAlways(written, active, outData) ==
    Append(written, [kind |-> "pcm", bytes |-> 2 * Len(outData),
                     data |-> outData])

\* The gate's decision on a mixed frame: out.write(outData) goes straight
\* to file descriptor 1 when the gate is active, nothing is written otherwise.
WriteChunk(written, active, outData) ==
    IF active
    THEN Append(written, [kind |-> "pcm", bytes |-> 2 * Len(outData),
                          data |-> outData])
    ELSE written

\* One pass of the while loop of flushIfReady.
FlushOneChunk(st) ==
    LET systemAudioIsEffectivelyPresent == st.sysCount >= framesPerChunk
        samples == FrameSamples(st, framesPerChunk)
        outData == [i \in 1..Len(samples) |->
                        MixSample(samples[i].sys, samples[i].mic)]
        rms == Rms([i \in 1..Len(samples) |-> samples[i].sys + samples[i].mic])
        micHeadN == (st.micHead + framesPerChunk) % bufferCapacity
        micCountN == st.micCount - framesPerChunk
        sysHeadN == IF systemAudioIsEffectivelyPresent
                    THEN (st.sysHead + framesPerChunk) % bufferCapacity
                    ELSE st.sysHead
        sysCountN == IF systemAudioIsEffectivelyPresent
                     THEN st.sysCount - framesPerChunk
                     ELSE st.sysCount
        vadN == VadStep(st.vad, rms)
    IN  [st EXCEPT
            !.micHead = micHeadN, !.micCount = micCountN,
            !.sysHead = sysHeadN, !.sysCount = sysCountN,
            !.vad = vadN,
            !.stdout = WriteChunk(@, vadN, outData),
            \* print() goes through the stdio buffer
            !.printed = Append(@, [msg |-> IF vadN THEN "written" ELSE "silent",
                                   name |-> "Chunk", dropped |-> 0,
                                   bytes |-> ChunkLineBytes(
                                       vadN, rms, micCountN, sysCountN)]),
            !.frames = Append(@, [rms |-> rms, before |-> st.vad,
                                  active |-> vadN,
                                  withSys |-> systemAudioIsEffectivelyPresent,
                                  micBefore |-> st.micCount,
                                  samples |-> samples,
                                  sysBefore |-> [head |-> st.sysHead,
                                                 count |-> st.sysCount,
                                                 buf |-> st.sysBuf],
                                  sysAfter |-> [head |-> sysHeadN,
                                                count |-> sysCountN,
                                                buf |-> st.sysBuf],
                                  data |-> outData])]

RECURSIVE FlushIfBothReady(_)
\* Variant: the loop waits for a frame in both rings.
FlushIfBothReady(st) ==
    IF st.micCount >= framesPerChunk /\ st.sysCount >= framesPerChunk
    THEN FlushIfBothReady(FlushOneChunk(st))
    ELSE st

\* Variant: an if in place of the while, one frame per call at most.
FlushOnlyOnce(st) ==
    IF st.micCount >= framesPerChunk THEN FlushOneChunk(st) ELSE st

RECURSIVE FlushIfReady(_)
\* flushIfReady: mix frames for as long as the microphone ring holds one.
FlushIfReady(st) ==
    IF st.micCount >= framesPerChunk
    THEN FlushIfReady(FlushOneChunk(st))
    ELSE st

\* ------------------------------------------------------------------------
\* The helper's callbacks
\* ------------------------------------------------------------------------

NoAppend ==
    [bufferType |-> "none", source |-> << >>,
     head |-> 0, countBefore |-> 0, countAfter |-> 0,
     before |-> << >>, after |-> << >>, printed |-> << >>]

\* What flushIfReady starts from: the rings as the append left them.
FlushStart(mBuf, mCount, sBuf, sCount, warnings) ==
    [micBuf |-> mBuf, micHead |-> micHead, micCount |-> mCount,
     sysBuf |-> sBuf, sysHead |-> sysHead, sysCount |-> sCount,
     vad |-> vadIsCurrentlyActive,
     stdout |-> << >>, printed |-> warnings, frames |-> << >>]

\* The state a callback leaves: the rings and gate after flushIfReady, the
\* PCM frames it wrote and the lines it printed.
CallbackDone(f) ==
    /\ micHead' = f.micHead
    /\ micCount' = f.micCount
    /\ sysHead' = f.sysHead
    /\ sysCount' = f.sysCount
    /\ vadIsCurrentlyActive' = f.vad
    /\ stdout' = f.stdout
    /\ printed' = f.printed
    /\ stdioBuf' = stdioBuf + SumSeq([i \in 1..Len(f.printed) |-> f.printed[i].bytes])
    /\ frames' = f.frames
    /\ vadTrace' = vadTrace \o [i \in 1..Len(f.frames) |->
                                   <<f.frames[i].rms, f.frames[i].active>>]
    /\ callbacks' = callbacks + 1
    /\ pipe' = pipe + SumSeq([i \in 1..Len(f.stdout) |-> f.stdout[i].bytes])
    /\ UNCHANGED <<running, ioProc>>

\* captureOutput(_:didOutput:from:) once the block is converted:
\* appendToRingBuffer(.microphone) and flushIfReady().
MicCallback(source) ==
    /\ running
    /\ Len(source) > 0
    /\ LET a == AppendToRingBuffer(micBuf, micHead, micCount, source, "Mic")
           f == FlushIfReady(FlushStart(a.buf, a.count, sysBuf, sysCount, a.printed))
       IN  /\ micBuf' = a.buf
           /\ UNCHANGED sysBuf
           /\ lastAppend' =
                  [bufferType |-> "Mic", source |-> source,
                   head |-> micHead,
                   countBefore |-> micCount, countAfter |-> a.count,
                   before |-> RingContents(micBuf, micHead, micCount),
                   after |-> RingContents(a.buf, micHead, a.count),
                   printed |-> a.printed]
           /\ CallbackDone(f)

\* stream(_:didOutputSampleBuffer:of:) once the block is converted:
\* appendToRingBuffer(.system) and flushIfReady().
SysCallback(source) ==
    /\ running
    /\ Len(source) > 0
    /\ LET a == AppendToRingBuffer(sysBuf, sysHead, sysCount, source, "System")
           f == FlushIfReady(FlushStart(micBuf, micCount, a.buf, a.count, a.printed))
       IN  /\ sysBuf' = a.buf
           /\ UNCHANGED micBuf
           /\ lastAppend' =
                  [bufferType |-> "System", source |-> source,
                   head |-> sysHead,
                   countBefore |-> sysCount, countAfter |-> a.count,
                   before |-> RingContents(sysBuf, sysHead, sysCount),
                   after |-> RingContents(a.buf, sysHead, a.count),
                   printed |-> a.printed]
           /\ CallbackDone(f)

\* The C library empties the stdio buffer of stdout into file descriptor 1.
\* When it does so depends on the buffer size of the platform.
StdioFlush ==
    /\ running
    /\ stdioBuf > 0
    /\ stdout' = << [kind |-> "text", bytes |-> stdioBuf, data |-> << >>] >>
    /\ stdioBuf' = 0
    /\ pipe' = pipe + stdioBuf
    /\ printed' = << >>
    /\ frames' = << >>
    /\ UNCHANGED <<sysBuf, micBuf, sysHead, sysCount, micHead, micCount,
                   vadIsCurrentlyActive, running,
                   lastAppend, vadTrace, callbacks, ioProc>>

\* The helper is stopped (SIGTERM or SIGKILL, no handler installed): it
\* writes nothing more; what the rings and the stdio buffer hold is lost.
StopHelper ==
    /\ running
    /\ running' = FALSE
    /\ stdout' = << >>
    /\ printed' = << >>
    /\ frames' = << >>
    /\ UNCHANGED <<sysBuf, micBuf, sysHead, sysCount, micHead, micCount,
                   vadIsCurrentlyActive, stdioBuf,
                   lastAppend, vadTrace, callbacks, pipe, ioProc>>

\* ------------------------------------------------------------------------
\* The IOProc build of the helper (Sources/AudioCaptureCLI/main.swift)
\* ------------------------------------------------------------------------

\* asbd.mSampleRate, forced to 16 kHz.
sampleRate == 16000

\* chunkFrames = Int(sampleRate * chunkDurationSeconds), with
\* chunkDurationSeconds = 0.5.
chunkFrames == sampleRate \div 2

samplesPerChunk(channels) == chunkFrames * channels

\* The bytes of the silent chunk written at startup.
primeBytes(channels) == chunkFrames * channels * 2

\* silenceThreshold = 0.0001, in ten-thousandths of full scale, the unit
\* of the samples given to IOProc.
silenceThreshold == 1

\* The AudioTap build is the helper.
NoIOProc == [started |-> FALSE, channels |-> 0, samplesBuffered |-> 0, calls |-> 0]

\* The IOProc build once it has written its priming chunk and runs its loop.
StartedIOProc(channels) ==
    [started |-> TRUE, channels |-> channels, samplesBuffered |-> 0, calls |-> 0]

\* The IOProc block, given frameCount floats per device, all samples of
\* the system tap at sys and all those of the microphone at mic: the mix is
\* their mean on every sample and the rms of the block is its magnitude.
\* An audible block is added to chunkData, and one chunk is written when
\* chunkData holds one.
IOProc(frameCount, sys, mic) ==
    /\ ioProc.started
    /\ running
    /\ LET channels == ioProc.channels
           mix == TruncDiv(sys + mic, 2)
           rms == IF mix < 0 THEN -mix ELSE mix
           monoCount == frameCount \div channels
           buffered == ioProc.samplesBuffered + monoCount
           flush == buffered >= samplesPerChunk(channels)
           bytesToSend == samplesPerChunk(channels) * 2
       IN  IF rms < silenceThreshold
           THEN /\ ioProc' = [ioProc EXCEPT !.calls = @ + 1]
                /\ stdout' = << >>
                /\ UNCHANGED pipe
           ELSE /\ ioProc' = [ioProc EXCEPT
                                 !.calls = @ + 1,
                                 !.samplesBuffered =
                                     IF flush THEN buffered - samplesPerChunk(channels)
                                     ELSE buffered]
                /\ stdout' = IF flush
                             THEN << [kind |-> "pcm", bytes |-> bytesToSend,
                                      data |-> << >>] >>
                             ELSE << >>
                /\ pipe' = IF flush THEN pipe + bytesToSend ELSE pipe
    /\ printed' = << >>
    /\ frames' = << >>
    /\ UNCHANGED <<sysBuf, micBuf, sysHead, sysCount, micHead, micCount,
                   vadIsCurrentlyActive, running, stdioBuf,
                   lastAppend, vadTrace, callbacks>>

\* ------------------------------------------------------------------------
\* The host bridge's handlers
\* ------------------------------------------------------------------------

\* The closure state initializeAudioCapture creates for the helper it spawns.
\* spawned says whether the operating system could start the binary; readers
\* are the sources of the helper that have delivered a block so far.
NewHelper(spawned) ==
    [spawned |-> spawned, exited |-> FALSE,
     hasPermissionIssue |-> FALSE,
     startupTimeout |-> "pending",
     startResult |-> IF spawned THEN "pending" ELSE "spawn error",
     readers |-> {}]

\* The rest of the bridge's state, for handlers that leave it alone.
Untouched ==
    /\ statusSent' = << >>
    /\ UNCHANGED <<mainWindow, signals, stops, appState>>

\* Variant: the renderer is never told.
NotifyNever(value, n) ==
    /\ statusSent' = << >>
    /\ UNCHANGED lastStatus

\* mainWindow.webContents.send('audio-capture-status', value), n times,
\* unless there is no window or it is destroyed.
Notify(value, n) ==
    IF mainWindow = "open" /\ n > 0
    THEN /\ statusSent' = [i \in 1..n |-> value]
         /\ lastStatus' = value
    ELSE /\ statusSent' = << >>
         /\ UNCHANGED lastStatus

\* resolve or reject on a promise: only the first call settles it.
Settle(current, outcome) == IF current = "pending" THEN outcome ELSE current

\* A call or event of the bridge: the buffer it found and what it returned.
Call(op, before, result, outcome) ==
    [op |-> op, before |-> before, result |-> result, outcome |-> outcome]

NoCall == Call("none", << >>, EmptyString, "none")

\* A discarded run of bytes, if there is one.
Discard(why, bytes) ==
    IF bytes = << >> THEN << >> ELSE << [why |-> why, bytes |-> bytes] >>

Record(call) ==
    /\ lastCall' = call
    /\ prevCall' = lastCall

\* startAudioCapture(window), initializeAudioCapture included.  helperFound
\* says whether getAudioCaptureHelperPath finds an existing helper binary.
\* spawned says whether the spawn succeeds.  When it does not, spawn()
\* returns a child object all the same and emits its 'error' on the next
\* tick, before the event loop runs anything else: the 'error' handler
\* (audioCaptureProcess = null, isActive = false, reject) is part of this
\* step.  It clears no timeout.
StartAudioCapture(helperFound, spawned) ==
    IF audioCaptureProcess # 0
    THEN \* already running: resolve(true)
         /\ Record(Call("start", rawAudioBuffer, EmptyString, "resolved"))
         /\ Untouched
         /\ UNCHANGED <<audioCaptureProcess, isActive, hasRegisteredExitHandlers,
                        rawAudioBuffer, helpers, lastStatus, received,
                        dataEvents, snapshots, dropped>>
    ELSE IF ~helperFound
    THEN \* mainWindow = window; reject(new Error('... helper not found'))
         /\ Record(Call("start", rawAudioBuffer, EmptyString, "rejected"))
         /\ mainWindow' = "open"
         /\ statusSent' = << >>
         /\ UNCHANGED <<audioCaptureProcess, isActive, hasRegisteredExitHandlers,
                        rawAudioBuffer, helpers, lastStatus, received,
                        dataEvents, snapshots, dropped, signals, stops,
                        appState>>
    ELSE \* mainWindow = window; spawn, clear the previous buffer, install the
         \* handlers and the startup timeout; the promise stays pending
         /\ audioCaptureProcess' = IF spawned THEN Len(helpers) + 1 ELSE 0
         /\ helpers' = Append(helpers, NewHelper(spawned))
         /\ isActive' = IF spawned THEN isActive ELSE FALSE
         /\ rawAudioBuffer' = << >>
         /\ dropped' = dropped \o Discard("reset", rawAudioBuffer)
         /\ hasRegisteredExitHandlers' = TRUE
         /\ mainWindow' = "open"
         /\ statusSent' = << >>
         /\ Record(Call("start", rawAudioBuffer, EmptyString,
                         IF spawned THEN "pending" ELSE "rejected"))
         /\ UNCHANGED <<lastStatus, received, dataEvents, snapshots,
                        signals, stops, appState>>

\* The stdout 'data' handler of helper pid, given n more bytes.
StdoutData(pid, n) ==
    /\ pid \in 1..Len(helpers)
    /\ helpers[pid].spawned
    /\ n > 0
    /\ rawAudioBuffer' = BufConcat(rawAudioBuffer, << <<received, received + n>> >>)
    /\ received' = received + n
    /\ dataEvents' = dataEvents + 1
    /\ Record(Call("data", rawAudioBuffer, EmptyString, "none"))
    /\ Untouched
    /\ UNCHANGED <<audioCaptureProcess, isActive, hasRegisteredExitHandlers,
                   helpers, lastStatus, snapshots, dropped>>

\* The 'exit' handlers of helper pid: the one that resets the bridge and
\* notifies the renderer, and the once('exit') that clears the startup
\* timeout.  (The permissions dialog shown on SIGTRAP is outside the model.)
\* Then the once('exit') of every stopAudioCapture that found this helper:
\* it clears the force-kill timeout, resets the bridge, notifies the
\* renderer and resolves the stop with true.
ProcessExit(pid) ==
    /\ pid \in 1..Len(helpers)
    /\ helpers[pid].spawned
    /\ ~helpers[pid].exited
    /\ audioCaptureProcess' = 0
    /\ isActive' = FALSE
    /\ Notify("false", 1 + Cardinality({s \in 1..Len(stops) : stops[s].target = pid}))
    /\ helpers' = [helpers EXCEPT
                      ![pid].exited = TRUE,
                      ![pid].startupTimeout =
                          IF @ = "pending" THEN "cleared" ELSE @]
    /\ stops' = [s \in 1..Len(stops) |->
                    IF stops[s].target = pid
                    THEN [stops[s] EXCEPT
                             !.forceKillTimeout = IF @ = "pending" THEN "cleared" ELSE @,
                             !.result = Settle(@, "true")]
                    ELSE stops[s]]
    /\ Record(Call("exit", rawAudioBuffer, EmptyString, "none"))
    /\ UNCHANGED <<hasRegisteredExitHandlers, rawAudioBuffer, received,
                   dataEvents, snapshots, dropped, mainWindow, signals,
                   appState>>

\* The stderr 'data' handler of helper pid.  permission says whether the
\* text holds one of the phrases the handler looks for.  (The dialog it
\* opens is outside the model.)
StderrData(pid, permission) ==
    /\ pid \in 1..Len(helpers)
    /\ helpers[pid].spawned
    /\ helpers' = [helpers EXCEPT
                      ![pid].hasPermissionIssue = @ \/ permission]
    /\ UNCHANGED <<lastCall, prevCall>>
    /\ Untouched
    /\ UNCHANGED <<audioCaptureProcess, isActive, hasRegisteredExitHandlers,
                   rawAudioBuffer, lastStatus, received, dataEvents,
                   snapshots, dropped>>

\* Variant: the startup timeout does not look at the process handle.
StartupTimeoutIgnoresHandle(pid) ==
    /\ pid \in 1..Len(helpers)
    /\ helpers[pid].startupTimeout = "pending"
    /\ IF ~helpers[pid].hasPermissionIssue
       THEN /\ isActive' = TRUE
            /\ Notify("true", 1)
            /\ helpers' = [helpers EXCEPT
                              ![pid].startupTimeout = "fired",
                              ![pid].startResult = Settle(@, "true")]
       ELSE /\ helpers' = [helpers EXCEPT
                              ![pid].startupTimeout = "fired",
                              ![pid].startResult = Settle(@, "permission error")]
            /\ statusSent' = << >>
            /\ UNCHANGED <<isActive, lastStatus>>
    /\ UNCHANGED <<lastCall, prevCall>>
    /\ UNCHANGED <<audioCaptureProcess, hasRegisteredExitHandlers,
                   rawAudioBuffer, received, dataEvents, snapshots, dropped,
                   mainWindow, signals, stops, appState>>

\* The startup timeout of helper pid fires, 2000 ms after the spawn.  It
\* looks at the module's audioCaptureProcess and at its own
\* hasPermissionIssue.
StartupTimeout(pid) ==
    /\ pid \in 1..Len(helpers)
    /\ helpers[pid].startupTimeout = "pending"
    /\ IF audioCaptureProcess # 0 /\ ~helpers[pid].hasPermissionIssue
       THEN /\ isActive' = TRUE
            /\ Notify("true", 1)
            /\ helpers' = [helpers EXCEPT
                              ![pid].startupTimeout = "fired",
                              ![pid].startResult = Settle(@, "true")]
       ELSE /\ helpers' = [helpers EXCEPT
                              ![pid].startupTimeout = "fired",
                              ![pid].startResult =
                                  Settle(@, IF helpers[pid].hasPermissionIssue
                                            THEN "permission error"
                                            ELSE "failed to start")]
            /\ statusSent' = << >>
            /\ UNCHANGED <<isActive, lastStatus>>
    /\ UNCHANGED <<lastCall, prevCall>>
    /\ UNCHANGED <<audioCaptureProcess, hasRegisteredExitHandlers,
                   rawAudioBuffer, received, dataEvents, snapshots, dropped,
                   mainWindow, signals, stops, appState>>

\* Variant: the forceful signal is sent at once.
StopSignalForceful == "SIGKILL"

\* The signal stopAudioCapture sends first.
StopSignal == "SIGTERM"

\* A kill(): the helper it goes to, the signal, the stopAudioCapture it
\* belongs to, and whether the exit of that stop's helper had been notified.
Kill(pid, sig, stop, exited) ==
    [pid |-> pid, sig |-> sig, stop |-> stop, exited |-> exited]

\* stopAudioCapture().  (kill() does not throw for a child object, so the
\* catch branch is not taken.)
StopAudioCapture ==
    IF audioCaptureProcess = 0
    THEN \* not running: resolve(false)
         /\ Record(Call("stop", rawAudioBuffer, EmptyString, "false"))
         /\ Untouched
         /\ UNCHANGED <<audioCaptureProcess, isActive, hasRegisteredExitHandlers,
                        rawAudioBuffer, helpers, lastStatus, received,
                        dataEvents, snapshots, dropped>>
    ELSE \* kill('SIGTERM'), arm the force-kill timeout, listen for 'exit'
         /\ signals' = Append(signals,
                              Kill(audioCaptureProcess, StopSignal, Len(stops) + 1,
                                   helpers[audioCaptureProcess].exited))
         /\ stops' = Append(stops, [target |-> audioCaptureProcess,
                                    forceKillTimeout |-> "pending",
                                    result |-> "pending"])
         /\ statusSent' = << >>
         /\ Record(Call("stop", rawAudioBuffer, EmptyString, "pending"))
         /\ UNCHANGED <<audioCaptureProcess, isActive, hasRegisteredExitHandlers,
                        rawAudioBuffer, helpers, lastStatus, received,
                        dataEvents, snapshots, dropped, mainWindow, appState>>

\* The force-kill timeout of stop s fires, 1000 ms after its SIGTERM.
ForceKillTimeout(s) ==
    /\ s \in 1..Len(stops)
    /\ stops[s].forceKillTimeout = "pending"
    /\ signals' = IF audioCaptureProcess # 0
                  THEN Append(signals,
                              Kill(audioCaptureProcess, "SIGKILL", s,
                                   helpers[stops[s].target].exited))
                  ELSE signals
    /\ stops' = [stops EXCEPT ![s].forceKillTimeout = "fired"]
    /\ statusSent' = << >>
    /\ UNCHANGED <<lastCall, prevCall>>
    /\ UNCHANGED <<audioCaptureProcess, isActive, hasRegisteredExitHandlers,
                   rawAudioBuffer, helpers, lastStatus, received, dataEvents,
                   snapshots, dropped, mainWindow, appState>>

\* The events registerExitHandlers listens to.
ExitEvents == {"will-quit", "quit", "uncaughtException", "unhandledRejection",
               "SIGINT", "SIGTERM"}

\* The application after the handler of an exit event has returned:
\* 'will-quit' is followed by 'quit', 'quit' ends the application, the
\* handlers of the two signals call process.exit(0), and a process with a
\* listener for uncaught exceptions or unhandled rejections goes on.
AfterExitEvent(event) ==
    IF event = "will-quit" THEN "quitting"
    ELSE IF event \in {"quit", "SIGINT", "SIGTERM"} THEN "ended"
    ELSE appState

\* forceKillAudioCapture()
ForceKillAudioCapture ==
    IF audioCaptureProcess # 0
    THEN /\ signals' = Append(signals,
                              Kill(audioCaptureProcess, "SIGKILL", 0,
                                   helpers[audioCaptureProcess].exited))
         /\ audioCaptureProcess' = 0
         /\ isActive' = FALSE
    ELSE UNCHANGED <<signals, audioCaptureProcess, isActive>>

\* The handler registerExitHandlers installed for an exit event.
ExitHandler(event) ==
    /\ hasRegisteredExitHandlers
    /\ event \in ExitEvents
    /\ event = "will-quit" => appState = "running"
    /\ ForceKillAudioCapture
    /\ appState' = AfterExitEvent(event)
    /\ Record(Call(event, rawAudioBuffer, EmptyString, "none"))
    /\ statusSent' = << >>
    /\ UNCHANGED <<hasRegisteredExitHandlers, rawAudioBuffer, helpers,
                   lastStatus, received, dataEvents, snapshots, dropped,
                   mainWindow, stops>>

\* toggleAudioCapture() up to its await: stopAudioCapture() when the main
\* process believes capture is on, startAudioCapture(mainWindow) otherwise.
\* on is the stop or the helper whose promise it waits for, 0 when the
\* promise was settled by the call, with outcome now.
ToggleAudioCapture(helperFound, spawned) ==
    /\ toggle = NoToggle
    /\ UNCHANGED isAudioCaptureEnabled
    /\ IF isAudioCaptureEnabled
       THEN /\ StopAudioCapture
            /\ toggle' = IF audioCaptureProcess = 0
                          THEN [kind |-> "stop", on |-> 0, now |-> "false"]
                          ELSE [kind |-> "stop", on |-> Len(stops) + 1,
                                now |-> "pending"]
       ELSE /\ StartAudioCapture(helperFound, spawned)
            /\ toggle' = IF audioCaptureProcess # 0
                          THEN [kind |-> "start", on |-> 0, now |-> "true"]
                          ELSE IF ~helperFound
                          THEN [kind |-> "start", on |-> 0, now |-> "rejected"]
                          ELSE [kind |-> "start", on |-> Len(helpers) + 1,
                                now |-> "pending"]

\* What the promise the waiting toggle awaits has settled to, "pending"
\* while it has not.
ToggleOutcome ==
    IF toggle.kind = "none" THEN "pending"
    ELSE IF toggle.on = 0 THEN toggle.now
    ELSE IF toggle.kind = "start" THEN helpers[toggle.on].startResult
    ELSE stops[toggle.on].result

\* The continuation of a toggle is due: it runs before any other event.
ToggleSettled == ToggleOutcome # "pending"

\* toggleAudioCapture() after its await: the status is set (left alone in
\* the catch of a rejected start) and sent to the renderer.
ToggleResume ==
    /\ ToggleSettled
    /\ isAudioCaptureEnabled' =
           (IF toggle.kind = "stop" THEN FALSE
            ELSE IF ToggleOutcome = "true" THEN TRUE
            ELSE isAudioCaptureEnabled)
    /\ toggle' = NoToggle
    /\ Notify(IF isAudioCaptureEnabled' THEN "true" ELSE "false", 1)
    /\ UNCHANGED <<lastCall, prevCall>>
    /\ UNCHANGED <<audioCaptureProcess, isActive, hasRegisteredExitHandlers,
                   rawAudioBuffer, helpers, received, dataEvents, snapshots,
                   dropped, mainWindow, signals, stops, appState>>
    /\ UNCHANGED tapVars

\* The window given to startAudioCapture is closed.
DestroyWindow ==
    /\ mainWindow = "open"
    /\ mainWindow' = "destroyed"
    /\ statusSent' = << >>
    /\ UNCHANGED <<lastCall, prevCall>>
    /\ UNCHANGED <<audioCaptureProcess, isActive, hasRegisteredExitHandlers,
                   rawAudioBuffer, helpers, lastStatus, received, dataEvents,
                   snapshots, dropped, signals, stops, appState>>

\* Inside helper pid, a source reader delivers its first block.  The bridge
\* is not told.
ReaderDelivers(pid, reader) ==
    /\ pid \in 1..Len(helpers)
    /\ helpers[pid].spawned
    /\ ~helpers[pid].exited
    /\ reader \notin helpers[pid].readers
    /\ helpers' = [helpers EXCEPT ![pid].readers = @ \cup {reader}]
    /\ UNCHANGED <<audioCaptureProcess, isActive, hasRegisteredExitHandlers,
                   rawAudioBuffer, lastStatus, received, dataEvents,
                   snapshots, dropped, lastCall, prevCall,
                   mainWindow, signals, stops, statusSent, appState>>

\* Variant: the snapshot is taken however little is buffered.
SnapshotNoMinimum(buf) ==
    LET trimmed == IF BufLen(buf) > MAX_BUFFER_SIZE
                   THEN BufDrop(buf, BufLen(buf) - MAX_BUFFER_SIZE) ELSE buf
        even == IF BufLen(trimmed) % 2 # 0
                THEN BufTake(trimmed, BufLen(trimmed) - 1) ELSE trimmed
    IN  [result |-> ToBase64(even), buffer |-> << >>,
         trimmed |-> trimmed, even |-> even]

\* Variant: the trim keeps the oldest MAX_BUFFER_SIZE bytes.
SnapshotKeepsOldest(buf) ==
    IF BufLen(buf) < MIN_BUFFER_SIZE
    THEN [result |-> EmptyString, buffer |-> buf, trimmed |-> buf, even |-> buf]
    ELSE LET trimmed == IF BufLen(buf) > MAX_BUFFER_SIZE
                        THEN BufTake(buf, MAX_BUFFER_SIZE) ELSE buf
             even == IF BufLen(trimmed) % 2 # 0
                     THEN BufTake(trimmed, BufLen(trimmed) - 1) ELSE trimmed
         IN  [result |-> ToBase64(even), buffer |-> << >>,
              trimmed |-> trimmed, even |-> even]

\* Variant: an odd length is encoded as it is.
SnapshotKeepsOddByte(buf) ==
    IF BufLen(buf) < MIN_BUFFER_SIZE
    THEN [result |-> EmptyString, buffer |-> buf, trimmed |-> buf, even |-> buf]
    ELSE LET trimmed == IF BufLen(buf) > MAX_BUFFER_SIZE
                        THEN BufDrop(buf, BufLen(buf) - MAX_BUFFER_SIZE) ELSE buf
         IN  [result |-> ToBase64(trimmed), buffer |-> << >>,
              trimmed |-> trimmed, even |-> trimmed]

\* Variant: the buffer is not cleared after encoding.
SnapshotKeepsBuffer(buf) ==
    IF BufLen(buf) < MIN_BUFFER_SIZE
    THEN [result |-> EmptyString, buffer |-> buf, trimmed |-> buf, even |-> buf]
    ELSE LET trimmed == IF BufLen(buf) > MAX_BUFFER_SIZE
                        THEN BufDrop(buf, BufLen(buf) - MAX_BUFFER_SIZE) ELSE buf
             even == IF BufLen(trimmed) % 2 # 0
                     THEN BufTake(trimmed, BufLen(trimmed) - 1) ELSE trimmed
         IN  [result |-> ToBase64(even), buffer |-> even,
              trimmed |-> trimmed, even |-> even]

\* Variant: after the trim to the maximum one more byte is removed.
SnapshotTrimsBelowMax(buf) ==
    IF BufLen(buf) < MIN_BUFFER_SIZE
    THEN [result |-> EmptyString, buffer |-> buf, trimmed |-> buf, even |-> buf]
    ELSE LET trimmed == IF BufLen(buf) > MAX_BUFFER_SIZE
                        THEN BufDrop(buf, BufLen(buf) - MAX_BUFFER_SIZE) ELSE buf
             even == IF BufLen(trimmed) % 2 # 0 \/ BufLen(buf) > MAX_BUFFER_SIZE
                     THEN BufTake(trimmed, BufLen(trimmed) - 1) ELSE trimmed
         IN  [result |-> ToBase64(even), buffer |-> << >>,
              trimmed |-> trimmed, even |-> even]

\* The body of getAudioBufferBase64 on a buffer: the string returned and the
\* buffer left, with the two intermediate values of rawAudioBuffer.
Snapshot(buf) ==
    IF BufLen(buf) < MIN_BUFFER_SIZE
    THEN [result |-> EmptyString, buffer |-> buf, trimmed |-> buf, even |-> buf]
    ELSE LET trimmed == IF BufLen(buf) > MAX_BUFFER_SIZE
                        THEN BufDrop(buf, BufLen(buf) - MAX_BUFFER_SIZE) ELSE buf
             even == IF BufLen(trimmed) % 2 # 0
                     THEN BufTake(trimmed, BufLen(trimmed) - 1) ELSE trimmed
         IN  [result |-> ToBase64(even), buffer |-> << >>,
              trimmed |-> trimmed, even |-> even]

\* getAudioBufferBase64()
GetAudioBufferBase64 ==
    LET g == Snapshot(rawAudioBuffer)
    IN  /\ rawAudioBuffer' = g.buffer
        /\ snapshots' = IF g.result = EmptyString THEN snapshots
                        ELSE Append(snapshots, g.result.bytes)
        /\ dropped' = dropped
               \o Discard("max", BufTake(rawAudioBuffer,
                                         BufLen(rawAudioBuffer) - BufLen(g.trimmed)))
               \o Discard("odd", BufDrop(g.trimmed, BufLen(g.even)))
        /\ Record(Call("get", rawAudioBuffer, g.result, "returned"))
        /\ Untouched
        /\ UNCHANGED <<audioCaptureProcess, isActive, hasRegisteredExitHandlers,
                       helpers, lastStatus, received, dataEvents>>

\* The bridge reads what the helper has written: one 'data' event of helper
\* pid with everything the pipe holds.
PipeData(pid) ==
    /\ pipe > 0
    /\ StdoutData(pid, pipe)
    /\ pipe' = 0
    /\ UNCHANGED mainVars
    /\ UNCHANGED <<sysBuf, micBuf, sysHead, sysCount, micHead, micCount,
                   vadIsCurrentlyActive, running, stdioBuf, stdout, printed,
                   frames, lastAppend, vadTrace, callbacks, ioProc>>

\* isAudioCaptureActive()
IsAudioCaptureActive == isActive

\* Variant: the call is made and the buffer is left as it is.
ClearAudioBufferKeeps ==
    /\ Record(Call("clear", rawAudioBuffer, EmptyString, "returned"))
    /\ Untouched
    /\ UNCHANGED <<audioCaptureProcess, isActive, hasRegisteredExitHandlers,
                   rawAudioBuffer, helpers, lastStatus, received, dataEvents,
                   snapshots, dropped>>

\* clearAudioBuffer()
ClearAudioBuffer ==
    /\ rawAudioBuffer' = << >>
    /\ dropped' = dropped \o Discard("clear", rawAudioBuffer)
    /\ Record(Call("clear", rawAudioBuffer, EmptyString, "returned"))
    /\ Untouched
    /\ UNCHANGED <<audioCaptureProcess, isActive, hasRegisteredExitHandlers,
                   helpers, lastStatus, received, dataEvents, snapshots>>

\* ------------------------------------------------------------------------
\* Initial state and specifications
\* ------------------------------------------------------------------------

\* The three lines start() printed (part_010:79, 107, 130): 54 + 54 + 52
\* bytes of UTF-8, newlines included.  Init is the helper once start()
\* has returned.
StartupLineBytes == 54 + 54 + 52

Init ==
    /\ sysBuf = [i \in 0..(bufferCapacity - 1) |-> 0]
    /\ micBuf = [i \in 0..(bufferCapacity - 1) |-> 0]
    /\ sysHead = 0 /\ sysCount = 0
    /\ micHead = 0 /\ micCount = 0
    /\ vadIsCurrentlyActive = FALSE
    /\ running = TRUE
    /\ stdioBuf = StartupLineBytes
    /\ stdout = << >>
    /\ printed = << >>
    /\ frames = << >>
    /\ lastAppend = NoAppend
    /\ vadTrace = << >>
    /\ callbacks = 0
    /\ pipe = 0
    /\ ioProc = NoIOProc
    /\ audioCaptureProcess = 0
    /\ isActive = FALSE
    /\ hasRegisteredExitHandlers = FALSE
    /\ rawAudioBuffer = << >>
    /\ helpers = << >>
    /\ lastStatus = "none"
    /\ received = 0
    /\ dataEvents = 0
    /\ snapshots = << >>
    /\ dropped = << >>
    /\ lastCall = NoCall
    /\ prevCall = NoCall
    /\ mainWindow = "null"
    /\ signals = << >>
    /\ stops = << >>
    /\ statusSent = << >>
    /\ appState = "running"
    /\ isAudioCaptureEnabled = FALSE
    /\ toggle = NoToggle

\* The helper under any interleaving of the two sources.
NextTap ==
    \/ \E n \in MicSizes, v \in MicLevels :
           callbacks < MaxCallbacks /\ MicCallback(Ramp(n, v))
               /\ UNCHANGED hostVars
    \/ \E n \in SysSizes, v \in SysLevels :
           callbacks < MaxCallbacks /\ SysCallback(Ramp(n, v))
               /\ UNCHANGED hostVars
    \/ StdioFlush /\ UNCHANGED hostVars
    \/ StopHelper /\ UNCHANGED hostVars

SpecTap == Init /\ [][NextTap]_vars

\* The helper fed whole frames of constant amplitude.
NextGate ==
    \/ \E v \in GateLevels :
           callbacks < MaxGateCallbacks /\ MicCallback(Block(framesPerChunk, v))
               /\ UNCHANGED hostVars
    \/ \E v \in SysLevels :
           callbacks < MaxGateCallbacks /\ SysCallback(Block(framesPerChunk, v))
               /\ UNCHANGED hostVars

SpecGate == Init /\ [][NextGate]_vars

\* The bridge's buffer: every handler that reads or writes rawAudioBuffer,
\* and the exit of a helper, after which another one can be spawned.
NextBuffer ==
    \/ \E found \in BOOLEAN :
           Len(helpers) < MaxSpawns /\ StartAudioCapture(found, TRUE)
               /\ UNCHANGED otherVars
    \/ \E pid \in 1..Len(helpers), n \in DataSizes :
           dataEvents < MaxDataEvents /\ StdoutData(pid, n)
               /\ UNCHANGED otherVars
    \/ \E pid \in 1..Len(helpers) : ProcessExit(pid) /\ UNCHANGED otherVars
    \/ GetAudioBufferBase64 /\ UNCHANGED otherVars
    \/ ClearAudioBuffer /\ UNCHANGED otherVars

SpecBuffer == Init /\ [][NextBuffer]_vars

\* The bridge's life cycle: start, the helper's events, the two timeouts
\* and stop, in any order the event loop can run them.
NextLife ==
    \/ \E found \in BOOLEAN, spawned \in BOOLEAN :
           Len(helpers) < MaxSpawns /\ StartAudioCapture(found, spawned)
               /\ UNCHANGED otherVars
    \/ \E pid \in 1..Len(helpers), permission \in BOOLEAN :
           StderrData(pid, permission) /\ UNCHANGED otherVars
    \/ \E pid \in 1..Len(helpers) : StartupTimeout(pid) /\ UNCHANGED otherVars
    \/ \E pid \in 1..Len(helpers) : ProcessExit(pid) /\ UNCHANGED otherVars
    \/ Len(stops) < MaxStops /\ StopAudioCapture /\ UNCHANGED otherVars
    \/ \E s \in 1..Len(stops) : ForceKillTimeout(s) /\ UNCHANGED otherVars
    \/ DestroyWindow /\ UNCHANGED otherVars

SpecLife == Init /\ [][NextLife]_vars

\* Timers that are not cleared fire.
\* Nothing obliges a helper to exit, nor the caller to call.
LifeFairness ==
    /\ \A pid \in 1..MaxSpawns : WF_vars(StartupTimeout(pid) /\ UNCHANGED otherVars)
    /\ \A s \in 1..MaxStops : WF_vars(ForceKillTimeout(s) /\ UNCHANGED otherVars)

SpecLifeFair == SpecLife /\ LifeFairness

\* The sizes of the blocks the aggregate device gives to IOProc, in frames.
IOFrames == {512, 4096}

\* The bridge has just spawned a helper and the helper has started: the
\* AudioTap build, or the IOProc build on a tap of one or two channels,
\* whose priming chunk is in the pipe.
InitSilence ==
    /\ sysBuf = [i \in 0..(bufferCapacity - 1) |-> 0]
    /\ micBuf = [i \in 0..(bufferCapacity - 1) |-> 0]
    /\ sysHead = 0 /\ sysCount = 0
    /\ micHead = 0 /\ micCount = 0
    /\ vadIsCurrentlyActive = FALSE
    /\ running = TRUE
    /\ printed = << >>
    /\ frames = << >>
    /\ lastAppend = NoAppend
    /\ vadTrace = << >>
    /\ callbacks = 0
    /\ \/ /\ ioProc = NoIOProc
          /\ stdioBuf = StartupLineBytes
          /\ stdout = << >>
          /\ pipe = 0
       \/ \E channels \in {1, 2} :
              /\ ioProc = StartedIOProc(channels)
              /\ stdioBuf = 0
              /\ stdout = << [kind |-> "prime", bytes |-> primeBytes(channels),
                              data |-> << >>] >>
              /\ pipe = primeBytes(channels)
    /\ audioCaptureProcess = 1
    /\ isActive = FALSE
    /\ hasRegisteredExitHandlers = TRUE
    /\ rawAudioBuffer = << >>
    /\ helpers = << NewHelper(TRUE) >>
    /\ lastStatus = "none"
    /\ received = 0
    /\ dataEvents = 0
    /\ snapshots = << >>
    /\ dropped = << >>
    /\ lastCall = Call("start", << >>, EmptyString, "pending")
    /\ prevCall = NoCall
    /\ mainWindow = "open"
    /\ signals = << >>
    /\ stops = << >>
    /\ statusSent = << >>
    /\ appState = "running"
    /\ isAudioCaptureEnabled = FALSE
    /\ toggle = NoToggle

\* Microphone blocks of one second delivered so far in scenario A: each
\* one is mixed into ten frames at once.
MicSeconds == Len(vadTrace) \div 10

\* System blocks of one second delivered so far in scenario A.
SysSeconds == callbacks - MicSeconds

\* Scenario A: both sources silent from the start, for SilentSeconds
\* seconds, the host taking snapshots.  The AudioTap build gets its blocks
\* one second at a time, the two readers keeping pace within a block.
NextSilence ==
    \/ /\ ~ioProc.started
       /\ MicSeconds < SilentSeconds
       /\ MicSeconds <= SysSeconds
       /\ MicCallback(Block(10 * framesPerChunk, 0))
       /\ UNCHANGED hostVars
    \/ /\ ~ioProc.started
       /\ SysSeconds < SilentSeconds
       /\ SysSeconds <= MicSeconds
       /\ SysCallback(Block(10 * framesPerChunk, 0))
       /\ UNCHANGED hostVars
    \/ ~ioProc.started /\ StdioFlush /\ UNCHANGED hostVars
    \/ \E n \in IOFrames :
           /\ ioProc.calls < MaxIOCalls
           /\ IOProc(n * ioProc.channels, 0, 0)
           /\ UNCHANGED hostVars
    \/ PipeData(audioCaptureProcess)
    \/ GetAudioBufferBase64 /\ UNCHANGED otherVars

SpecSilence == InitSilence /\ [][NextSilence]_vars

\* The application until it ends: captures started and stopped, helpers
\* exiting, and the exit events.  Between 'will-quit' and 'quit' only exit
\* events are handled.
NextExit ==
    \/ /\ appState = "running"
       /\ Len(helpers) < MaxSpawns
       /\ StartAudioCapture(TRUE, TRUE)
       /\ UNCHANGED otherVars
    \/ \E pid \in 1..Len(helpers) :
           appState = "running" /\ StartupTimeout(pid) /\ UNCHANGED otherVars
    \/ \E pid \in 1..Len(helpers) :
           appState = "running" /\ ProcessExit(pid) /\ UNCHANGED otherVars
    \/ /\ appState = "running"
       /\ Len(stops) < MaxStops
       /\ StopAudioCapture
       /\ UNCHANGED otherVars
    \/ \E s \in 1..Len(stops) :
           appState = "running" /\ ForceKillTimeout(s) /\ UNCHANGED otherVars
    \/ \E event \in ExitEvents :
           appState # "ended" /\ ExitHandler(event) /\ UNCHANGED otherVars

SpecExit == Init /\ [][NextExit]_vars

\* An exit event after which the application goes on, and one that ends it.
HandleEvents == {"uncaughtException", "quit"}

\* The process handle and the active flag: every handler that sets or
\* clears one of them.  (The force-kill timeout of a stop reads the handle
\* and writes neither.)
NextHandle ==
    \/ \E spawned \in BOOLEAN :
           /\ appState = "running"
           /\ Len(helpers) < MaxSpawns
           /\ StartAudioCapture(TRUE, spawned)
           /\ UNCHANGED otherVars
    \/ \E pid \in 1..Len(helpers) :
           appState = "running" /\ StartupTimeout(pid) /\ UNCHANGED otherVars
    \/ \E pid \in 1..Len(helpers) :
           appState = "running" /\ ProcessExit(pid) /\ UNCHANGED otherVars
    \/ /\ appState = "running"
       /\ Len(stops) < MaxStops
       /\ StopAudioCapture
       /\ UNCHANGED otherVars
    \/ \E event \in HandleEvents :
           appState # "ended" /\ ExitHandler(event) /\ UNCHANGED otherVars

SpecHandle == Init /\ [][NextHandle]_vars

\* The capture toggled from the main process, the helper's stderr output,
\* startup timeout and exit, and the force-kill timeout of a stop.
NextToggle ==
    \/ \E helperFound \in BOOLEAN, spawned \in BOOLEAN :
           /\ Len(helpers) < MaxSpawns
           /\ Len(stops) < MaxStops
           /\ ToggleAudioCapture(helperFound, spawned)
           /\ UNCHANGED tapVars
    \/ ToggleResume
    \/ \E pid \in 1..Len(helpers), permission \in BOOLEAN :
           ~ToggleSettled /\ StderrData(pid, permission) /\ UNCHANGED otherVars
    \/ \E pid \in 1..Len(helpers) :
           ~ToggleSettled /\ StartupTimeout(pid) /\ UNCHANGED otherVars
    \/ \E pid \in 1..Len(helpers) :
           ~ToggleSettled /\ ProcessExit(pid) /\ UNCHANGED otherVars
    \/ \E s \in 1..Len(stops) :
           ~ToggleSettled /\ ForceKillTimeout(s) /\ UNCHANGED otherVars

SpecToggle == Init /\ [][NextToggle]_vars

\* Levels of the blocks given to IOProc, in ten-thousandths of full scale:
\* silence and half of full scale.
IOLevels == {0, 5000}

\* Either build of the helper given audible input, the bridge reading its
\* pipe.
NextChunks ==
    \/ \E v \in GateLevels :
           /\ ~ioProc.started
           /\ callbacks < MaxCallbacks
           /\ MicCallback(Block(framesPerChunk, v))
           /\ UNCHANGED hostVars
    \/ ~ioProc.started /\ StdioFlush /\ UNCHANGED hostVars
    \/ \E n \in IOFrames, v \in IOLevels :
           /\ ioProc.calls < MaxIOCalls
           /\ IOProc(n * ioProc.channels, v, v)
           /\ UNCHANGED hostVars
    \/ PipeData(audioCaptureProcess)

SpecChunks == InitSilence /\ [][NextChunks]_vars

\* The start of a session: the helper's readers and stderr, the startup
\* timeout and the helper's exit.
NextStartup ==
    \/ \E found \in BOOLEAN, spawned \in BOOLEAN :
           Len(helpers) < MaxSpawns /\ StartAudioCapture(found, spawned)
               /\ UNCHANGED otherVars
    \/ \E pid \in 1..Len(helpers), reader \in {"mic", "sys"} :
           ReaderDelivers(pid, reader) /\ UNCHANGED otherVars
    \/ \E pid \in 1..Len(helpers), permission \in BOOLEAN :
           StderrData(pid, permission) /\ UNCHANGED otherVars
    \/ \E pid \in 1..Len(helpers) : StartupTimeout(pid) /\ UNCHANGED otherVars
    \/ \E pid \in 1..Len(helpers) : ProcessExit(pid) /\ UNCHANGED otherVars

SpecStartup == Init /\ [][NextStartup]_vars

\* The helper fed microphone blocks at the limit of what its ring takes.
NextFit ==
    \/ \E n \in FitSizes, v \in MicLevels :
           callbacks < MaxCallbacks /\ MicCallback(Ramp(n, v))
               /\ UNCHANGED hostVars
    \/ \E n \in SysSizes, v \in SysLevels :
           callbacks < MaxCallbacks /\ SysCallback(Ramp(n, v))
               /\ UNCHANGED hostVars

SpecFit == Init /\ [][NextFit]_vars

\* The helper fed whole frames of samples from the ends of Int16.
NextMix ==
    \/ \E v \in MixLevels, w \in MixLevels :
           callbacks < MaxMixCallbacks
               /\ MicCallback(Alternating(framesPerChunk, v, w))
               /\ UNCHANGED hostVars
    \/ \E v \in MixLevels, w \in MixLevels :
           callbacks < MaxMixCallbacks
               /\ SysCallback(Alternating(framesPerChunk, v, w))
               /\ UNCHANGED hostVars

SpecMix == Init /\ [][NextMix]_vars

\* The sizes of the data events of a session: less than a snapshot needs,
\* and enough for one.
SessionSizes == {101, MIN_BUFFER_SIZE + 1}

\* Sessions of capture: start, the helper's data, snapshots, stop with its
\* force-kill timeout, and the helper's exit.
NextSession ==
    \/ \E found \in BOOLEAN :
           Len(helpers) < MaxSpawns /\ StartAudioCapture(found, TRUE)
               /\ UNCHANGED otherVars
    \/ \E pid \in 1..Len(helpers), n \in SessionSizes :
           dataEvents < MaxDataEvents /\ StdoutData(pid, n)
               /\ UNCHANGED otherVars
    \/ Len(stops) < MaxStops /\ StopAudioCapture /\ UNCHANGED otherVars
    \/ \E s \in 1..Len(stops) : ForceKillTimeout(s) /\ UNCHANGED otherVars
    \/ \E pid \in 1..Len(helpers) : ProcessExit(pid) /\ UNCHANGED otherVars
    \/ GetAudioBufferBase64 /\ UNCHANGED otherVars

SpecSession == Init /\ [][NextSession]_vars

\* A capture that becomes active, or ends, while the transcription view
\* takes snapshots and clears the buffer.
NextClear ==
    \/ Len(helpers) < MaxSpawns /\ StartAudioCapture(TRUE, TRUE)
           /\ UNCHANGED otherVars
    \/ \E pid \in 1..Len(helpers) : StartupTimeout(pid) /\ UNCHANGED otherVars
    \/ \E pid \in 1..Len(helpers), n \in SessionSizes :
           dataEvents < MaxDataEvents /\ StdoutData(pid, n)
               /\ UNCHANGED otherVars
    \/ \E pid \in 1..Len(helpers) : ProcessExit(pid) /\ UNCHANGED otherVars
    \/ GetAudioBufferBase64 /\ UNCHANGED otherVars
    \/ ClearAudioBuffer /\ UNCHANGED otherVars

SpecClear == Init /\ [][NextClear]_vars

\* ------------------------------------------------------------------------
\* Properties of the helper
\* ------------------------------------------------------------------------

\* The gate states of the frames mixed so far, and their loudness.
TraceRms == [i \in 1..Len(vadTrace) |-> vadTrace[i][1]]

TraceActive == [i \in 1..Len(vadTrace) |-> vadTrace[i][2]]

\* The gate before frame i was applied: Silent before the first frame.
ActiveBefore(i) == IF i = 1 THEN FALSE ELSE TraceActive[i - 1]

\* C1: the gate starts Silent and is updated once per mixed frame; from
\* Silent it becomes Active iff rms >= openThreshold, from Active it becomes
\* Silent iff rms < closeThreshold, in between it keeps its state; the rms
\* sequence 50, 160, 120, 90, 160 yields Silent, Active, Active, Silent,
\* Active.
C1_GateHysteresis ==
    /\ vadIsCurrentlyActive =
           (IF vadTrace = << >> THEN FALSE ELSE TraceActive[Len(vadTrace)])
    /\ \A i \in 1..Len(vadTrace) :
           /\ ~ActiveBefore(i) => (TraceActive[i] <=> TraceRms[i] >= 150)
           /\ ActiveBefore(i) => (~TraceActive[i] <=> TraceRms[i] < 100)
           /\ (TraceRms[i] >= 100 /\ TraceRms[i] < 150)
                  => TraceActive[i] = ActiveBefore(i)
    /\ (Len(vadTrace) >= 5 /\ SubSeq(TraceRms, 1, 5) = <<50, 160, 120, 90, 160>>)
           => SubSeq(TraceActive, 1, 5) = <<FALSE, TRUE, TRUE, FALSE, TRUE>>

\* C1 witness: the five frames of the claim have been mixed.
C1_Witness ==
    /\ Len(vadTrace) = 5
    /\ TraceRms = <<50, 160, 120, 90, 160>>
    /\ TraceActive = <<FALSE, TRUE, TRUE, FALSE, TRUE>>
    /\ vadIsCurrentlyActive

\* The PCM frames among the writes of the last step.
PcmWrites == SelectSeq(stdout, LAMBDA w : w.kind = "pcm")

\* The frames of the last flushIfReady after which the gate was Active.
ActiveFrames == SelectSeq(frames, LAMBDA f : f.active)

\* C2: a mixed frame is written to stdout iff the gate is Active once the
\* frame's rms has been applied: the frame that opens the gate is written,
\* every frame mixed while the gate is Silent is discarded.
C2_OnlyActiveFramesWritten ==
    (frames # << >>) =>
        /\ Len(PcmWrites) = Len(ActiveFrames)
        /\ \A i \in 1..Len(PcmWrites) : PcmWrites[i].data = ActiveFrames[i].data
        /\ \A i \in 1..Len(frames) :
               frames[i].active = VadStep(frames[i].before, frames[i].rms)

\* C2 witness: the last callback mixed a frame that opened the gate and
\* wrote it, after an earlier frame had been discarded.
C2_Witness ==
    /\ \E i \in 1..Len(frames) : ~frames[i].before /\ frames[i].active
    /\ PcmWrites # << >>
    /\ \E j \in 1..Len(vadTrace) : ~TraceActive[j]

\* C3: every byte sequence the helper writes to its output channel is a
\* whole number of mixed frames.
C3_WritesAreWholeFrames ==
    \A i \in 1..Len(stdout) : stdout[i].bytes % bytesPerChunk = 0

\* What does hold: every write made by out.write is exactly one frame, and
\* a stopped helper writes nothing.
PcmWritesAreWholeFrames ==
    /\ \A i \in 1..Len(PcmWrites) :
           /\ PcmWrites[i].bytes = bytesPerChunk
           /\ Len(PcmWrites[i].data) = framesPerChunk
    /\ ~running => PcmWrites = << >>

\* C9: for both rings, 0 <= count <= bufferCapacity and
\* 0 <= head < bufferCapacity after any interleaving of the two callbacks,
\* also between the append and the flush of a callback.
C9_RingBounds ==
    /\ 0 <= sysCount /\ sysCount <= bufferCapacity
    /\ 0 <= micCount /\ micCount <= bufferCapacity
    /\ 0 <= sysHead /\ sysHead < bufferCapacity
    /\ 0 <= micHead /\ micHead < bufferCapacity
    /\ 0 <= lastAppend.countAfter /\ lastAppend.countAfter <= bufferCapacity
    /\ \A i \in 1..Len(frames) : frames[i].micBefore >= framesPerChunk

\* C9 witness: the system ring is full while both read pointers have moved.
C9_Witness ==
    /\ sysCount = bufferCapacity
    /\ sysHead > 0
    /\ micHead > 0

\* The last append got more samples than the ring had room for.
Overflowed(a) ==
    /\ a.bufferType # "none"
    /\ Len(a.source) > bufferCapacity - a.countBefore

\* C10: an append of more samples than the remaining space stores exactly
\* the first bufferCapacity - count samples of the block behind the samples
\* already buffered, which stay as they were, as does the read pointer; it
\* logs the number of dropped samples, and the helper keeps running.
C10_OverflowDropsTail ==
    [][ (callbacks' = callbacks + 1 /\ Overflowed(lastAppend')) =>
          LET a == lastAppend'
              room == bufferCapacity - a.countBefore
          IN  /\ a.countAfter = bufferCapacity
              /\ a.after = a.before \o SubSeq(a.source, 1, room)
              /\ a.head = (IF a.bufferType = "Mic" THEN micHead ELSE sysHead)
              /\ Len(a.printed) = 1
              /\ a.printed[1].msg = "overflow"
              /\ a.printed[1].dropped = Len(a.source) - room
              /\ printed'[1] = a.printed[1]
              /\ running'
      ]_vars

\* C10 witness: an append overflowed a ring that already held samples and
\* whose write position had wrapped.
C10_Witness ==
    /\ Overflowed(lastAppend)
    /\ lastAppend.countBefore > 0
    /\ lastAppend.head > 0
    /\ lastAppend.countAfter = bufferCapacity
    /\ running

\* C21: the helper writes nothing but mixed frames to its output channel,
\* each of bytesPerChunk bytes and in mixing order, and no diagnostic line
\* is on its way there.
C21_OnlyPcmOnStdout ==
    /\ \A i \in 1..Len(stdout) :
           /\ stdout[i].kind = "pcm"
           /\ stdout[i].bytes = bytesPerChunk
    /\ [i \in 1..Len(stdout) |-> stdout[i].data]
           = [i \in 1..Len(ActiveFrames) |-> ActiveFrames[i].data]
    /\ stdioBuf = 0

\* The system reader has delivered nothing so far: its ring is as start()
\* left it (every block the reader delivers holds non-zero samples).
SystemNeverDelivered ==
    /\ sysCount = 0
    /\ \A i \in 0..(bufferCapacity - 1) : sysBuf[i] = 0

\* This step is a microphone callback.
MicCallbackStep ==
    /\ callbacks' = callbacks + 1
    /\ lastAppend'.bufferType = "Mic"

\* C17: while the system reader has delivered nothing, a microphone
\* callback mixes every whole frame the microphone ring holds (fewer than
\* framesPerChunk samples are left), each frame is the microphone samples
\* in order mixed with zeros, and the frames written are the frames after
\* which the gate is active.
C17_MicAloneDrivesMixer ==
    [][(SystemNeverDelivered /\ MicCallbackStep) =>
          LET held == lastAppend'.after
              n == Len(held) \div framesPerChunk
              active == SelectSeq(frames', LAMBDA f : f.active)
              pcm == SelectSeq(stdout', LAMBDA w : w.kind = "pcm")
          IN  /\ Len(frames') = n
              /\ micCount' = Len(held) - n * framesPerChunk
              /\ micCount' < framesPerChunk
              /\ \A j \in 1..n :
                     /\ ~frames'[j].withSys
                     /\ frames'[j].data =
                            [i \in 1..framesPerChunk |->
                                MixSample(0, held[(j - 1) * framesPerChunk + i])]
              /\ Len(pcm) = Len(active)
              /\ \A k \in 1..Len(pcm) : pcm[k].data = active[k].data]_vars

\* The system reader has delivered nothing, and the microphone callback
\* just made produced frames, one of them written.
C17_Witness ==
    /\ SystemNeverDelivered
    /\ lastAppend.bufferType = "Mic"
    /\ Len(frames) >= 2
    /\ Len(PcmWrites) >= 1
    /\ Len(PcmWrites) < Len(frames)

\* The loudness of scenario B, as the gate sees it.
LoudRms == 500

\* The last two frames mixed are a loud one and then a silent one, the
\* silent one mixed by the last callback.
DropFrame ==
    /\ Len(vadTrace) >= 2
    /\ Len(frames) = 1
    /\ TraceRms[Len(vadTrace) - 1] = LoudRms
    /\ TraceRms[Len(vadTrace)] = 0

\* C18 (as amended): every frame of loudness 500 leaves the gate active and
\* is written, the one that opens the gate included; the first frame of
\* loudness 0 after them closes the gate and is not written: no frame is
\* written once the loudness has dropped.
C18_LoudFramesThenSilence ==
    /\ \A i \in 1..Len(vadTrace) :
           /\ TraceRms[i] = LoudRms => TraceActive[i]
           /\ TraceRms[i] = 0 => ~TraceActive[i]
    /\ \A j \in 1..Len(frames) :
           frames[j].rms = LoudRms => Len(PcmWrites) >= 1
    /\ DropFrame => (PcmWrites = << >> /\ ~vadIsCurrentlyActive)

\* Three loud frames, the first opening the gate, then the silent frame.
C18_Witness ==
    /\ Len(vadTrace) = 4
    /\ \A i \in 1..3 : TraceRms[i] = LoudRms /\ TraceActive[i]
    /\ DropFrame
    /\ PcmWrites = << >>

\* C18 (as stated): one more frame is written while the loudness drops,
\* before the gate closes.
C18_ExtraFrameOnDrop == DropFrame => Len(PcmWrites) = 1

\* The frames the gate of either build let through in the last step.
GateWrites == PcmWrites

\* C19: while every block is silent, the gate lets no frame through and
\* getAudioBufferBase64 returns nothing.
C19_SilenceEmitsNothing ==
    /\ GateWrites = << >>
    /\ snapshots = << >>
    /\ lastCall.op = "get" => lastCall.result = EmptyString

\* C33: a microphone callback finds fewer than framesPerChunk samples in
\* its ring, so a block of at most bufferCapacity - framesPerChunk + 1
\* samples is stored whole: nothing is dropped and no overflow is logged.
C33_MicBlocksUpToLimitFit ==
    /\ [](micCount < framesPerChunk)
    /\ [][(MicCallbackStep /\ Len(lastAppend'.source) <= LargestMicBlock) =>
             /\ lastAppend'.countBefore = micCount
             /\ lastAppend'.countAfter = micCount + Len(lastAppend'.source)
             /\ lastAppend'.after = lastAppend'.before \o lastAppend'.source
             /\ lastAppend'.printed = << >>
             /\ \A i \in 1..Len(printed') : printed'[i].msg # "overflow"]_vars

\* A block of the largest size arrived behind framesPerChunk - 1 held
\* samples and filled the ring to the last place.
C33_Witness ==
    /\ lastAppend.bufferType = "Mic"
    /\ lastAppend.countBefore = framesPerChunk - 1
    /\ Len(lastAppend.source) = LargestMicBlock
    /\ lastAppend.countAfter = bufferCapacity
    /\ lastAppend.printed = << >>

\* One sample more does not fit.
C33_OneMoreIsDropped ==
    /\ lastAppend.bufferType = "Mic"
    /\ lastAppend.countBefore = framesPerChunk - 1
    /\ Len(lastAppend.source) = LargestMicBlock + 1
    /\ Len(lastAppend.printed) = 1

\* The samples of a ring when the flushIfReady of this step started: what
\* the append left if it was on that ring, what the ring held otherwise.
HeldAtFlush(name, buf, head, count) ==
    IF lastAppend'.bufferType = name THEN lastAppend'.after
    ELSE RingContents(buf, head, count)

\* The frames of this step up to frame k that took system samples.
WithSysUpTo(k) == Cardinality({j \in 1..k : frames'[j].withSys})

\* C32: each ring is a queue.  An append puts the samples it accepts, the
\* first of the block, behind the samples already held, which stay as they
\* were; the mixer takes from the front, in order: the frames of a call
\* are the oldest samples held, and the ring keeps the rest.  This holds
\* where the write position or the read position passes the end of the
\* storage.
C32_RingsAreQueues ==
    [][callbacks' = callbacks + 1 =>
          LET a == lastAppend'
              mic == a.bufferType = "Mic"
              accepted == Min(Len(a.source), bufferCapacity - a.countBefore)
              micHeld == HeldAtFlush("Mic", micBuf, micHead, micCount)
              sysHeld == HeldAtFlush("System", sysBuf, sysHead, sysCount)
              n == Len(frames')
          IN  /\ a.before = (IF mic THEN RingContents(micBuf, micHead, micCount)
                             ELSE RingContents(sysBuf, sysHead, sysCount))
              /\ a.after = a.before \o SubSeq(a.source, 1, accepted)
              /\ \A k \in 1..n : \A i \in 1..framesPerChunk :
                     /\ frames'[k].samples[i].mic
                            = micHeld[(k - 1) * framesPerChunk + i]
                     /\ frames'[k].withSys =>
                            frames'[k].samples[i].sys
                                = sysHeld[WithSysUpTo(k - 1) * framesPerChunk + i]
              /\ RingContents(micBuf', micHead', micCount')
                     = SubSeq(micHeld, n * framesPerChunk + 1, Len(micHeld))
              /\ RingContents(sysBuf', sysHead', sysCount')
                     = SubSeq(sysHeld, WithSysUpTo(n) * framesPerChunk + 1,
                              Len(sysHeld))]_vars

\* The microphone ring was written past the end of its storage, behind a
\* sample it still held, and the mixer read it back across the end.
C32_Witness ==
    /\ lastAppend.bufferType = "Mic"
    /\ lastAppend.countBefore > 0
    /\ lastAppend.head > 0
    /\ lastAppend.head + lastAppend.countAfter > bufferCapacity
    /\ Len(frames) * framesPerChunk > bufferCapacity - lastAppend.head

\* The microphone samples a callback's flushIfReady started from: the ring
\* after the append of a microphone callback, the ring as it was otherwise.
MicHeldAtFlush ==
    IF lastAppend'.bufferType = "Mic" THEN lastAppend'.countAfter ELSE micCount

\* C31: a call of flushIfReady ends after as many frames as the microphone
\* ring held whole, takes framesPerChunk microphone samples for each, and
\* leaves fewer than framesPerChunk; a frame is mixed only over a
\* microphone ring holding framesPerChunk samples or more, so a callback of
\* the system reader, which finds fewer, mixes none, however full the
\* system ring is.
C31_MicrophonePacesTheMixer ==
    /\ [](micCount < framesPerChunk)
    /\ [][callbacks' = callbacks + 1 =>
             /\ Len(frames') = MicHeldAtFlush \div framesPerChunk
             /\ micCount' = MicHeldAtFlush - framesPerChunk * Len(frames')
             /\ micHead' = (micHead + framesPerChunk * Len(frames')) % bufferCapacity
             /\ \A k \in 1..Len(frames') :
                    /\ frames'[k].micBefore = MicHeldAtFlush - framesPerChunk * (k - 1)
                    /\ frames'[k].micBefore >= framesPerChunk
                    /\ Len(frames'[k].samples) = framesPerChunk
             /\ lastAppend'.bufferType = "System" => frames' = << >>]_vars

\* The system reader filled its ring while the microphone ring held less
\* than a frame: nothing was mixed.
C31_Witness ==
    /\ lastAppend.bufferType = "System"
    /\ sysCount = bufferCapacity
    /\ micCount > 0
    /\ frames = << >>

\* One call mixed several frames.
C31_SeveralFrames == Len(frames) > 1 /\ micCount = 0

\* 100 ms of mono Int16 at 16 kHz: 1,600 frames, 3,200 bytes.  The frame of
\* the AudioTap build is scaled to framesPerChunk samples in this model.
ChunkBytes100ms == IF ioProc.started THEN (sampleRate \div 10) * 2 ELSE bytesPerChunk

\* C29: every chunk of audio the helper writes, the priming chunk
\* included, is 100 ms of mono Int16.
C29_EveryChunkIs100ms ==
    \A i \in 1..Len(stdout) :
        stdout[i].kind \in {"pcm", "prime"} => stdout[i].bytes = ChunkBytes100ms

\* The chunks of audible input alone, the priming chunk left aside.
C29_AudioChunksAre100ms ==
    \A i \in 1..Len(stdout) :
        stdout[i].kind = "pcm" => stdout[i].bytes = ChunkBytes100ms

\* The valid samples of the system ring a frame found, and left.
SysRing(r) == RingContents(r.buf, r.head, r.count)

\* C30: a frame mixed while the system ring holds less than a frame has
\* zero for every system sample and leaves that ring as it was: read
\* pointer, count and samples.  A frame mixed while it holds a frame or
\* more takes exactly the framesPerChunk oldest system samples, in order,
\* and leaves the rest.  Either way the ring a callback leaves is the one
\* its last frame left.
C30_ShortSystemRingIsLeftAlone ==
    /\ [](\A k \in 1..Len(frames) :
             LET f == frames[k]
             IN  /\ f.withSys = (f.sysBefore.count >= framesPerChunk)
                 /\ Len(f.samples) = framesPerChunk
                 /\ ~f.withSys =>
                        /\ \A i \in 1..framesPerChunk : f.samples[i].sys = 0
                        /\ f.sysAfter = f.sysBefore
                 /\ f.withSys =>
                        /\ \A i \in 1..framesPerChunk :
                               f.samples[i].sys = SysRing(f.sysBefore)[i]
                        /\ f.sysAfter.count = f.sysBefore.count - framesPerChunk
                        /\ SysRing(f.sysAfter)
                               = SubSeq(SysRing(f.sysBefore), framesPerChunk + 1,
                                        f.sysBefore.count)
                 /\ k < Len(frames) => frames[k + 1].sysBefore = f.sysAfter)
    /\ [](frames # << >> =>
             frames[Len(frames)].sysAfter
                 = [head |-> sysHead, count |-> sysCount, buf |-> sysBuf])
    /\ [][(frames' # << >> /\ lastAppend'.bufferType = "Mic") =>
             /\ frames'[1].sysBefore
                    = [head |-> sysHead, count |-> sysCount, buf |-> sysBuf]
             /\ (\A k \in 1..Len(frames') : ~frames'[k].withSys)
                    => UNCHANGED <<sysBuf, sysHead, sysCount>>]_vars

\* A frame mixed while the system ring held a sample of amplitude 100, but
\* not a frame of them.
C30_Witness ==
    \E k \in 1..Len(frames) :
        /\ frames[k].sysBefore.count > 0
        /\ frames[k].sysBefore.count < framesPerChunk
        /\ SysRing(frames[k].sysBefore)[1] = 100
        /\ sysCount = frames[k].sysBefore.count

\* A frame that took its system samples from a ring holding more than a frame.
C30_ConsumedWitness ==
    \E k \in 1..Len(frames) :
        /\ frames[k].withSys
        /\ frames[k].sysAfter.count > 0

\* The mixed value of a pair of samples, in thousandths.
MixedThousandths(p) == 707 * p.sys + 707 * p.mic

\* The pair's mixed value is beyond the largest Int16, or beyond the smallest.
ClipsHigh(p) == MixedThousandths(p) >= (Int16Max + 1) * 1000

ClipsLow(p) == MixedThousandths(p) <= (Int16Min - 1) * 1000

C26_TruncationTowardZero ==
    \E k \in 1..Len(frames) :
        \E i \in 1..framesPerChunk :
            /\ frames[k].samples[i] = [mic |-> -3, sys |-> -3]
            /\ frames[k].data[i] = -4

\* The sum of the squares of sys + mic over a frame's samples.
SumOfRawSquares(f) ==
    BigSum([i \in 1..Len(f.samples) |->
               BigSquare(f.samples[i].sys + f.samples[i].mic)])

\* C27: the loudness of a frame is the root of the mean square of the
\* unclamped 0.707 * (sys + mic) over the framesPerChunk samples of that
\* frame, in whole units: rms^2 <= mean square < (rms + 1)^2, also when
\* samples of the frame were clipped on the way out.
C27_RmsIsRootMeanSquare ==
    \A k \in 1..Len(frames) :
        LET f == frames[k]
            r == f.rms
            \* 10^6 * framesPerChunk * mean square
            scaled == BigMulSmall(SumOfRawSquares(f), 499849)
            Bound(q) == BigShift(BigMulSmall(BigSquare(q), framesPerChunk), 2)
        IN  /\ Len(f.samples) = framesPerChunk
            /\ r >= 0
            /\ BigLeq(Bound(r), scaled)
            /\ ~BigLeq(Bound(r + 1), scaled)

\* A frame with a clipped sample: its loudness is above what any frame of
\* written samples can have.
C27_Witness ==
    \E k \in 1..Len(frames) :
        /\ \E i \in 1..framesPerChunk : ClipsHigh(frames[k].samples[i])
        /\ \A i \in 1..framesPerChunk : ~ClipsLow(frames[k].samples[i])
        /\ frames[k].rms > Int16Max

\* ------------------------------------------------------------------------
\* Properties of the host bridge's buffer
\* ------------------------------------------------------------------------

\* The last event of the bridge was a call of getAudioBufferBase64.
LastWasGet == lastCall.op = "get"

\* C4: getAudioBufferBase64 returns the empty string, and leaves the
\* buffered bytes as they are, whenever fewer than MIN_BUFFER_SIZE (32,000)
\* bytes are buffered, and a non-empty string whenever at least
\* MIN_BUFFER_SIZE bytes are buffered.
C4_EmptyBelowMinimum ==
    /\ MIN_BUFFER_SIZE = 32000
    /\ LastWasGet =>
           /\ BufLen(lastCall.before) < 32000 =>
                  /\ lastCall.result = EmptyString
                  /\ rawAudioBuffer = lastCall.before
           /\ BufLen(lastCall.before) >= 32000 =>
                  /\ lastCall.result.chars > 0
                  /\ lastCall.result.bytes # << >>
           /\ lastCall.outcome = "returned"

\* C4 witness: a snapshot was asked for with 31,999 bytes buffered.
C4_Witness ==
    /\ LastWasGet
    /\ BufLen(lastCall.before) = 31999
    /\ lastCall.result = EmptyString
    /\ BufLen(rawAudioBuffer) = 31999

\* C5: with more than MAX_BUFFER_SIZE (8 MiB) bytes buffered, the snapshot
\* holds at most MAX_BUFFER_SIZE bytes, which are the most recently received
\* ones, in order; the older bytes are discarded.
C5_KeepsMostRecent ==
    /\ MAX_BUFFER_SIZE = 8388608
    /\ (LastWasGet /\ BufLen(lastCall.before) > 8388608) =>
           LET r == lastCall.result.bytes
               older == BufLen(lastCall.before) - BufLen(r)
           IN  /\ BufLen(r) > 0
               /\ BufLen(r) <= 8388608
               /\ r = BufDrop(lastCall.before, older)
               /\ r[Len(r)][2] = received
               /\ rawAudioBuffer = << >>
               /\ dropped # << >>
               /\ dropped[Len(dropped)].bytes = BufTake(lastCall.before, older)

\* C5 witness: a snapshot was taken of an odd number of bytes above 8 MiB,
\* delivered in several pieces.
C5_Witness ==
    /\ LastWasGet
    /\ BufLen(lastCall.before) > MAX_BUFFER_SIZE
    /\ BufLen(lastCall.before) % 2 = 1
    /\ dataEvents >= 2
    /\ BufLen(lastCall.result.bytes) = MAX_BUFFER_SIZE

\* C6: every snapshot encodes an even number of bytes; an odd retained
\* length loses its last byte.
C6_EvenSnapshots ==
    /\ \A i \in 1..Len(snapshots) : BufLen(snapshots[i]) % 2 = 0
    /\ LastWasGet =>
           /\ BufLen(lastCall.result.bytes) % 2 = 0
           /\ (/\ BufLen(lastCall.before) % 2 = 1
               /\ BufLen(lastCall.before) >= MIN_BUFFER_SIZE
               /\ BufLen(lastCall.before) <= MAX_BUFFER_SIZE)
                  => lastCall.result.bytes =
                         BufTake(lastCall.before, BufLen(lastCall.before) - 1)

\* C6 witness: a snapshot was taken of an odd number of bytes between the
\* two limits, delivered in several pieces.
C6_Witness ==
    /\ LastWasGet
    /\ BufLen(lastCall.before) % 2 = 1
    /\ BufLen(lastCall.before) >= MIN_BUFFER_SIZE
    /\ BufLen(lastCall.before) <= MAX_BUFFER_SIZE
    /\ dataEvents >= 2
    /\ BufLen(lastCall.result.bytes) = BufLen(lastCall.before) - 1

\* C7: of two calls of getAudioBufferBase64 in a row, with no data event
\* between them, the second returns the empty string when the first
\* returned data: a successful snapshot clears the buffer.
C7_SecondSnapshotEmpty ==
    (/\ LastWasGet
     /\ prevCall.op = "get"
     /\ prevCall.result # EmptyString)
        => /\ lastCall.before = << >>
           /\ lastCall.result = EmptyString
           /\ rawAudioBuffer = << >>

\* C7 witness: two calls in a row, the first of which returned data.
C7_Witness ==
    /\ LastWasGet
    /\ prevCall.op = "get"
    /\ BufLen(prevCall.before) >= MIN_BUFFER_SIZE
    /\ prevCall.result.chars > 0
    /\ lastCall.result = EmptyString

RECURSIVE Flatten(_)
\* The runs of a sequence of Buffers, one after the other.
Flatten(bufs) == IF bufs = << >> THEN << >> ELSE Head(bufs) \o Flatten(Tail(bufs))

\* Every run of bytes the bridge has accounted for: returned in a snapshot,
\* discarded, or still buffered.
AccountedRuns ==
    Flatten(snapshots)
        \o Flatten([i \in 1..Len(dropped) |-> dropped[i].bytes])
        \o rawAudioBuffer

\* C8: under any interleaving of data events with getAudioBufferBase64 and
\* clearAudioBuffer, no received byte is returned by two snapshots, each
\* snapshot is one contiguous run of the received stream in arrival order,
\* and every received byte is in exactly one snapshot, or still buffered,
\* or was discarded by the MAX_SIZE trim, the odd-byte trim, clear or the
\* reset at start.
C8_AtomicBufferMutation ==
    LET runs == AccountedRuns
    IN  /\ \A i \in 1..Len(runs) :
               0 <= runs[i][1] /\ runs[i][1] < runs[i][2] /\ runs[i][2] <= received
        /\ \A i, j \in 1..Len(runs) :
               i < j => (runs[i][2] <= runs[j][1] \/ runs[j][2] <= runs[i][1])
        /\ BufLen(runs) = received
        /\ \A i \in 1..Len(snapshots) : Len(snapshots[i]) = 1
        /\ \A i \in 1..(Len(snapshots) - 1) :
               snapshots[i][1][2] <= snapshots[i + 1][1][1]
        /\ Len(rawAudioBuffer) <= 1
        /\ rawAudioBuffer # << >> => rawAudioBuffer[1][2] = received
        /\ \A i \in 1..Len(dropped) :
               dropped[i].why \in {"max", "odd", "clear", "reset"}

\* C8 witness: data arrived right after the second snapshot, and bytes
\* have been discarded along the way.
C8_Witness ==
    /\ Len(snapshots) >= 2
    /\ lastCall.op = "data"
    /\ prevCall.op = "get"
    /\ prevCall.result # EmptyString
    /\ rawAudioBuffer # << >>
    /\ dropped # << >>

\* ------------------------------------------------------------------------
\* Properties of the bridge's life cycle
\* ------------------------------------------------------------------------

\* The kill() calls made for stop s, in order.
SignalsOf(s) == SelectSeq(signals, LAMBDA k : k.stop = s)

\* C11: every stopAudioCapture that finds a process sends SIGTERM to it
\* first; SIGKILL is sent only by the force-kill timeout of that stop, after
\* its SIGTERM, to the same helper, and only while the helper's exit has
\* not been notified; when the exit is notified while the timeout is
\* pending the timeout is cleared and no SIGKILL is ever sent for that stop.
C11_GracefulBeforeForceful ==
    \A s \in 1..Len(stops) :
        LET sent == SignalsOf(s)
            st == stops[s]
        IN  /\ Len(sent) \in {1, 2}
            /\ sent[1].sig = "SIGTERM"
            /\ \A i \in 1..Len(sent) : sent[i].pid = st.target /\ ~sent[i].exited
            /\ Len(sent) = 2 =>
                   /\ sent[2].sig = "SIGKILL"
                   /\ st.forceKillTimeout = "fired"
            /\ st.forceKillTimeout = "cleared" =>
                   /\ Len(sent) = 1
                   /\ helpers[st.target].exited
            /\ helpers[st.target].exited => st.forceKillTimeout # "pending"

\* A stop escalated to SIGKILL, and another one whose helper exited in time.
C11_Witness ==
    /\ \E s \in 1..Len(stops) :
           /\ Len(SignalsOf(s)) = 2
           /\ SignalsOf(s)[2].sig = "SIGKILL"
    /\ \E s \in 1..Len(stops) :
           /\ stops[s].forceKillTimeout = "cleared"
           /\ Len(SignalsOf(s)) = 1

\* The bridge's process-handle state is reset.
HandleReset == audioCaptureProcess = 0 /\ ~IsAudioCaptureActive

\* C12: after a stopAudioCapture that found a process, the bridge reaches a
\* state where the process handle is null, isActive is false and the stop's
\* promise is settled, whether or not the helper's exit is ever notified.
C12_StopAlwaysResets ==
    \A s \in 1..MaxStops :
        (s <= Len(stops)) ~>
            (s <= Len(stops) /\ stops[s].result # "pending" /\ HandleReset)

\* Helper pid exits in this step.
Exits(pid) ==
    /\ pid \in 1..Len(helpers)
    /\ ~helpers[pid].exited
    /\ helpers'[pid].exited

\* No stopAudioCapture was made on helper pid.
NotStopped(pid) == \A s \in 1..Len(stops) : stops[s].target # pid

\* C13: when a helper exits while capture is active and no stop was
\* requested, the exit handler leaves isAudioCaptureActive() false and the
\* process handle null, and sends 'audio-capture-status' false to the
\* window if it still exists.
C13_CrashDetected ==
    [][\A pid \in 1..MaxSpawns :
           (Exits(pid) /\ IsAudioCaptureActive /\ NotStopped(pid)) =>
               /\ ~IsAudioCaptureActive'
               /\ audioCaptureProcess' = 0
               /\ mainWindow = "open" =>
                      (statusSent' = << "false" >> /\ lastStatus' = "false")]_vars

\* A helper that became active and was never stopped has just exited, and
\* the renderer was told.
C13_Witness ==
    /\ Len(helpers) > 0
    /\ helpers[Len(helpers)].exited
    /\ helpers[Len(helpers)].startResult = "true"
    /\ NotStopped(Len(helpers))
    /\ lastCall.op = "exit"
    /\ statusSent = << "false" >>
    /\ HandleReset

\* Helper pid failed to start: the spawn failed, or it exited before its
\* startup timeout fired.
StartFailed(pid) ==
    /\ pid <= Len(helpers)
    /\ \/ ~helpers[pid].spawned
       \/ helpers[pid].exited /\ helpers[pid].startupTimeout = "cleared"

\* C14: when the spawn fails or the helper exits before the startup timeout,
\* the promise of startAudioCapture is settled with an error.
C14_StartFailureReported ==
    \A pid \in 1..MaxSpawns :
        StartFailed(pid) ~>
            (StartFailed(pid)
                /\ helpers[pid].startResult \in
                       {"spawn error", "failed to start", "permission error"})

\* Helper pid has reported a permission denial and its startup is not over.
DeniedInStartup(pid) ==
    /\ pid <= Len(helpers)
    /\ helpers[pid].hasPermissionIssue
    /\ helpers[pid].startupTimeout = "pending"

\* C15: a helper that reports a permission denial during startup has its
\* startAudioCapture rejected with the permission error, and capture does
\* not become active while a helper that has reported a denial is the
\* current one.
C15_PermissionDenialFails ==
    /\ \A pid \in 1..MaxSpawns :
           DeniedInStartup(pid) ~>
               (pid <= Len(helpers)
                   /\ helpers[pid].startResult = "permission error")
    /\ [][(~IsAudioCaptureActive /\ IsAudioCaptureActive') =>
              ~helpers[audioCaptureProcess].hasPermissionIssue]_vars

\* C16: capture becomes active only when both source readers of the current
\* helper have delivered a block.
C16_ActiveOnlyAfterBothReaders ==
    [][(~IsAudioCaptureActive /\ IsAudioCaptureActive') =>
           /\ audioCaptureProcess # 0
           /\ helpers[audioCaptureProcess].readers = {"mic", "sys"}]_vars

\* C22: the accumulation buffer holds an even number of bytes in every
\* state, whatever the sizes of the data events.
C22_BufferAlwaysEven ==
    BufLen(rawAudioBuffer) % BYTES_PER_SAMPLE = 0

\* C23: the accumulation buffer never holds more than MAX_BUFFER_SIZE
\* bytes, with or without snapshots between the data events.
C23_BufferNeverAboveMax ==
    BufLen(rawAudioBuffer) <= MAX_BUFFER_SIZE

\* The session of the helper spawned last was stopped, and that stop has
\* completed: its promise is resolved with true.
StopCompleted ==
    /\ Len(stops) > 0
    /\ stops[Len(stops)].target = Len(helpers)
    /\ stops[Len(stops)].result = "true"

\* C24: the buffer is empty when a capture has just been started, no byte
\* of a stopped session is in it once the stop has completed, and a
\* snapshot taken then returns the empty string.
C24_BufferLivesWithSession ==
    /\ (lastCall.op = "start" /\ lastCall.outcome = "pending")
           => rawAudioBuffer = << >>
    /\ StopCompleted => rawAudioBuffer = << >>
    /\ (StopCompleted /\ lastCall.op = "get")
           => lastCall.result = EmptyString

\* C34: whenever the bridge says it is active it holds a process handle.
C34_ActiveImpliesHandle ==
    isActive => audioCaptureProcess # 0

\* The bridge is active, on the handle of its second helper.
C34_Witness ==
    /\ isActive
    /\ audioCaptureProcess = 2
    /\ \E i \in 1..Len(signals) : signals[i].sig = "SIGKILL" /\ signals[i].stop = 0

\* Helper pid was spawned, has not been seen to exit, and was never sent
\* SIGKILL.
LeftRunning(pid) ==
    /\ helpers[pid].spawned
    /\ ~helpers[pid].exited
    /\ \A i \in 1..Len(signals) :
           ~(signals[i].pid = pid /\ signals[i].sig = "SIGKILL")

\* C36: when a call of startAudioCapture has just resolved with true, at
\* once because a handle was held or from its startup timeout,
\* isAudioCaptureActive() is true.
C36_ResolvedTrueMeansActive ==
    /\ [](lastCall.op = "start" /\ lastCall.outcome = "resolved"
             => IsAudioCaptureActive)
    /\ [][\A pid \in 1..Len(helpers) :
             (helpers[pid].startResult = "pending"
                 /\ helpers'[pid].startResult = "true") => isActive']_vars

\* The outcomes of a start that are rejections.
Rejections == {"spawn error", "permission error", "failed to start"}

\* C37: when a call of startAudioCapture is rejected, at once or from its
\* startup timeout, the bridge holds no handle and the helper that call
\* spawned, if any, has exited.
C37_RejectedStartLeavesNothing ==
    /\ [](lastCall.op = "start" /\ lastCall.outcome = "rejected"
             => audioCaptureProcess = 0)
    /\ [][\A pid \in 1..Len(helpers) :
             (helpers[pid].startResult = "pending"
                 /\ helpers'[pid].startResult \in Rejections) =>
                 /\ audioCaptureProcess' = 0
                 /\ helpers'[pid].exited]_vars

\* The offset, in the stream of bytes received from the helper, of the first
\* byte of the i-th snapshot.
SnapshotStart(i) == snapshots[i][1][1]

\* C39: within one session every snapshot starts on an int16 sample boundary
\* of the helper's output: the stream offset of its first byte is even, also
\* after a trim to MAX_BUFFER_SIZE and after an earlier snapshot dropped an
\* odd trailing byte.
C39_SnapshotsStartOnSampleBoundary ==
    Len(helpers) <= 1 =>
        \A i \in 1..Len(snapshots) : SnapshotStart(i) % 2 = 0

\* No toggle is waiting and no start or stop of the bridge is pending.
NothingInProgress ==
    /\ toggle = NoToggle
    /\ \A pid \in 1..Len(helpers) : helpers[pid].startResult # "pending"
    /\ \A s \in 1..Len(stops) : stops[s].result # "pending"

\* C38: while nothing is in progress the status the main process keeps is
\* the bridge's isAudioCaptureActive(), and a toggle that finds no capture
\* running starts one.
C38_StatusAgreesWithBridge ==
    /\ [](NothingInProgress => isAudioCaptureEnabled = IsAudioCaptureActive)
    /\ [][(toggle = NoToggle /\ toggle' # NoToggle /\ ~IsAudioCaptureActive)
             => toggle'.kind = "start"]_vars

\* This step is the 'exit' notification of helper pid.
ExitOf(pid) ==
    /\ pid \in 1..Len(helpers)
    /\ ~helpers[pid].exited
    /\ helpers'[pid].exited

\* C35: a helper is spawned only while no handle is held, and becomes the
\* handle; at most one helper is running that was not sent SIGKILL; and the
\* exit notification of a helper leaves the handle and the active flag
\* alone when the handle names a later helper.
C35_OneHelperAtATime ==
    /\ [](Cardinality({pid \in 1..Len(helpers) : LeftRunning(pid)}) <= 1)
    /\ [][Len(helpers') > Len(helpers) =>
             /\ audioCaptureProcess = 0
             /\ helpers'[Len(helpers')].spawned
                    => audioCaptureProcess' = Len(helpers')]_vars
    /\ [][\A pid \in 1..Len(helpers) :
             (ExitOf(pid) /\ audioCaptureProcess # 0 /\ audioCaptureProcess # pid)
                 => UNCHANGED <<audioCaptureProcess, isActive>>]_vars

\* C28: when the handler of an exit event has run, the bridge holds no
\* process and is not active; no exit event is handled before a first
\* helper was spawned; and once the application has ended no helper is
\* left running that was never sent SIGKILL.
C28_NoHelperOutlivesTheApp ==
    /\ lastCall.op \in ExitEvents =>
           (audioCaptureProcess = 0 /\ ~isActive /\ Len(helpers) > 0)
    /\ appState = "ended" =>
           \A pid \in 1..Len(helpers) : ~LeftRunning(pid)

\* The handler of an exit event found a process and sent it SIGKILL.
C28_TrackedIsKilled ==
    [][(lastCall'.op \in ExitEvents /\ lastCall' # lastCall
            /\ audioCaptureProcess # 0) =>
          /\ signals' = Append(signals,
                                Kill(audioCaptureProcess, "SIGKILL", 0,
                                     helpers[audioCaptureProcess].exited))
          /\ audioCaptureProcess' = 0
          /\ isActive' = FALSE]_vars

\* A step that is a call of clearAudioBuffer.
ClearStep ==
    /\ lastCall'.op = "clear"
    /\ <<lastCall, prevCall>>' # <<lastCall, prevCall>>

\* C25: clearAudioBuffer empties the buffer, returns and encodes nothing,
\* and leaves the process handle, the active flag and the rest of the
\* bridge as they are; data arriving next is buffered from empty, and a
\* snapshot right after the clear returns the empty string.
C25_ClearDiscardsAndNothingElse ==
    /\ [][ClearStep =>
             /\ rawAudioBuffer' = << >>
             /\ lastCall'.result = EmptyString
             /\ UNCHANGED <<audioCaptureProcess, isActive, helpers,
                            hasRegisteredExitHandlers, lastStatus, received,
                            dataEvents, snapshots, mainWindow, signals, stops>>
             /\ statusSent' = << >>]_vars
    /\ []((lastCall.op = "get" /\ prevCall.op = "clear")
             => lastCall.result = EmptyString)
    /\ []((lastCall.op = "data" /\ prevCall.op = "clear")
             => /\ Len(rawAudioBuffer) = 1
                /\ rawAudioBuffer[1][2] = received
                /\ BufLen(rawAudioBuffer) \in SessionSizes)

\* A clear found enough bytes for a snapshot while the capture was active,
\* and the capture went on: the helper's next data is in the buffer.
C25_Witness ==
    /\ prevCall.op = "clear"
    /\ BufLen(prevCall.before) >= MIN_BUFFER_SIZE
    /\ lastCall.op = "data"
    /\ isActive
    /\ audioCaptureProcess # 0

\* The last call was a getAudioBufferBase64 that found more than
\* MAX_BUFFER_SIZE bytes, an odd number of them.
OddOverflowGet ==
    /\ LastWasGet
    /\ BufLen(lastCall.before) > MAX_BUFFER_SIZE
    /\ BufLen(lastCall.before) % 2 = 1

\* C20 (as amended): a snapshot of more than MAX_BUFFER_SIZE bytes, odd
\* total or not, returns exactly the most recent MAX_BUFFER_SIZE bytes:
\* MAX_BUFFER_SIZE is even, so the trim for alignment removes nothing after
\* the trim to the maximum.
C20_OverflowSnapshotIsMax ==
    (LastWasGet /\ BufLen(lastCall.before) > MAX_BUFFER_SIZE) =>
        /\ BufLen(lastCall.result.bytes) = MAX_BUFFER_SIZE
        /\ lastCall.result.bytes =
               BufDrop(lastCall.before, BufLen(lastCall.before) - MAX_BUFFER_SIZE)
        /\ MAX_BUFFER_SIZE % 2 = 0

\* A snapshot of MAX_BUFFER_SIZE + 101 bytes.
C20_Witness ==
    /\ OddOverflowGet
    /\ BufLen(lastCall.before) = MAX_BUFFER_SIZE + 101
    /\ BufLen(lastCall.result.bytes) = MAX_BUFFER_SIZE

\* C20 (as stated): a snapshot of more than MAX_BUFFER_SIZE bytes, an odd
\* number of them, returns MAX_BUFFER_SIZE - 1 bytes.
C20_OddOverflowLosesAByte ==
    OddOverflowGet => BufLen(lastCall.result.bytes) = MAX_BUFFER_SIZE - 1

====
